---------------------------- MODULE Spec2Model ----------------------------
(***************************************************************************)
(* A model of the IMBE frame decoder (imbe.rs): the frame driver           *)
(* ImbeDecoder::decode with its silence / repeat / full-synthesis paths,   *)
(* the state PrevFrame carried across frames, the four sample workers of   *)
(* the combiner, and the bit-level functions of the descrambler.           *)
(*                                                                         *)
(* Number representation.  The code computes in f32.  Here every quantity  *)
(* the driver branches on is an exact rational held as an integer in a     *)
(* fixed unit:                                                             *)
(*   - a fundamental w0 is the pair <<num, den>> with w0 = pi * num / den; *)
(*   - an error rate is counted in units of 10^-6 / Micro;                 *)
(*   - the energy tracker S_E is counted in units of 1 / Micro;            *)
(*   - a window coefficient is counted in units of 1/50.                   *)
(* Quantities that come out of transcendental arithmetic (spectral         *)
(* amplitudes, noise draws, cosines) are kept symbolic: what is modelled   *)
(* of them is which terms are exactly zero and which inputs they are       *)
(* computed from.                                                          *)
(***************************************************************************)
EXTENDS Integers, Sequences, FiniteSets, TLC

VARIABLES prev, buf, writes, pc, cur, wpos, path, frame, nsynth, probe

vars == <<prev, buf, writes, pc, cur, wpos, path, frame, nsynth, probe>>

decoderVars == <<prev, buf, writes, pc, cur, wpos, path, frame, nsynth>>

\* The value of a local that holds nothing (outside a call).
Null == [tag |-> "null"]

-----------------------------------------------------------------------------
(* Bounds of the model.                                                    *)

\* Frames that may be fully synthesized (and saved) in one behaviour.  The
\* rate and energy units below are exact for that many updates.
MaxSynth == 1

\* Samples one worker writes in one step of its loop.
WriteStep == 20

\* force_voiced calls applied to one VoiceDecisions value
MaxForce == 2

\* frames synthesized one after another with the same energy R_M0
MaxTrack == 45

\* bits allocated to one amplitude in the small allocations
MaxWidth == 2

\* steps of the grid the random phase is drawn from, per pi
PhaseGrid == 4

\* calls of ScanBits::next made after the first one that returned None
MaxNone == 2

-----------------------------------------------------------------------------
(* Program constants.                                                      *)

SAMPLES_PER_FRAME == 160
THREADS == 4
SAMPLES_PER_THREAD == SAMPLES_PER_FRAME \div THREADS
MIN_HARMONICS == 9
MAX_HARMONICS == 56

-----------------------------------------------------------------------------
(* Integer helpers for the code's bit operations on unsigned words.        *)

RECURSIVE Pow(_, _)
Pow(b, e) == IF e = 0 THEN 1 ELSE b * Pow(b, e - 1)

\* x >> k
Shr(x, k) == x \div Pow(2, k)

\* bit k of x
Bit(x, k) == Shr(x, k) % 2

\* x & (2^k - 1)
Low(x, k) == x % Pow(2, k)

Min(a, b) == IF a <= b THEN a ELSE b
Max(a, b) == IF a >= b THEN a ELSE b

\* floor and ceiling of n / d for d > 0 (n may be negative)
FloorDiv(n, d) == n \div d
CeilDiv(n, d) == -((-n) \div d)

\* Units of the error rate per 10^-6, and of S_E per 1: multiplying by 0.95
\* (= 19/20) stays exact for MaxSynth updates.
Micro == Pow(20, MaxSynth)

-----------------------------------------------------------------------------
(* frame.rs: chunks u0..u7 are a function on 0..7, errors e0..e6 on 0..6.  *)

Chunks(u0, u1, u2, u3, u4, u5, u6, u7) ==
    [i \in 0..7 |-> CASE i = 0 -> u0 [] i = 1 -> u1 [] i = 2 -> u2 [] i = 3 -> u3
                      [] i = 4 -> u4 [] i = 5 -> u5 [] i = 6 -> u6 [] OTHER -> u7]

Errors(e0, e1, e2, e3, e4, e5, e6) ==
    [i \in 0..6 |-> CASE i = 0 -> e0 [] i = 1 -> e1 [] i = 2 -> e2 [] i = 3 -> e3
                      [] i = 4 -> e4 [] i = 5 -> e5 [] OTHER -> e6]

\* ReceivedFrame::new asserts the chunk widths 12,12,12,12,11,11,11,7; the
\* error counts are usize and are not checked.
WellFormed(chunks) ==
    /\ \A i \in 0..3 : Shr(chunks[i], 12) = 0
    /\ \A i \in 4..6 : Shr(chunks[i], 11) = 0
    /\ Shr(chunks[7], 7) = 0

-----------------------------------------------------------------------------
(* descramble.rs: bootstrap.                                               *)

\* Faulty variant of period: takes bits 1..0 of u7 instead of bits 2..1.
period_low_bits(chunks) ==
    LET hi == Shr(chunks[0], 4) % 256
    IN  (hi - (hi % 4)) + (chunks[7] % 4)

\* (chunks[0] >> 4) as u8 & 0b11111100 | (chunks[7] >> 1) as u8 & 0b11
period(chunks) ==
    LET hi == Shr(chunks[0], 4) % 256
        lo == Shr(chunks[7], 1) % 256
    IN  (hi - (hi % 4)) + (lo % 4)

Bootstrap_new(chunks) ==
    LET p == period(chunks)
    IN  IF p >= 0 /\ p <= 207 THEN [tag |-> "Period", p |-> p]
        ELSE IF p >= 216 /\ p <= 219 THEN [tag |-> "Silence"]
        ELSE [tag |-> "Invalid"]

-----------------------------------------------------------------------------
(* params.rs.                                                              *)

\* Faulty variant of from_float: the bands are h / 3 rounded down.
BaseParams_floor_bands(p) ==
    LET num == 8
        den == 2 * p + 79
        q == FloorDiv(4 * den + num, 4 * num)
        h == FloorDiv(9254 * q, 10000)
    IN  [fundamental |-> <<num, den>>, harmonics |-> h, bands |-> Min(h \div 3, 12)]

\* f = 4 pi / (period + 39.5) = pi * 8 / (2 period + 79);
\* h = floor(0.9254 * floor(pi / f + 0.25)), pi / f + 0.25 = (4 den + num) / (4 num);
\* b = min((h + 2) / 3, 12).
BaseParams_from_float(p) ==
    LET num == 8
        den == 2 * p + 79
        q == FloorDiv(4 * den + num, 4 * num)
        h == FloorDiv(9254 * q, 10000)
        b == Min((h + 2) \div 3, 12)
    IN  [fundamental |-> <<num, den>>, harmonics |-> h, bands |-> b]

BaseParams_new(p) == BaseParams_from_float(p)

\* fundamental 0.02985 pi, 30 harmonics, 10 bands
BaseParams_default ==
    [fundamental |-> <<597, 20000>>, harmonics |-> 30, bands |-> 10]

-----------------------------------------------------------------------------
(* descramble.rs: voiced/unvoiced decisions.  The u64 bitmap is the set of *)
(* the positions of its one bits.                                          *)

\* fold over the bands i = K-1 .. 0: bits << 3 | (0b111 if bit i of voiced),
\* then bits >> (3 - rem) when rem = L % 3 is not 0.
gen_harmonics_bitmap(voiced, params) ==
    LET bits == {3 * i + j : i \in {k \in 0..(params.bands - 1) : Bit(voiced, k) = 1},
                             j \in 0..2}
        rem == params.harmonics % 3
    IN  IF rem = 0 THEN bits
        ELSE {b - (3 - rem) : b \in {c \in bits : c >= 3 - rem}}

VoiceDecisions_new(voiced, params) ==
    [params |-> params, voiced |-> gen_harmonics_bitmap(voiced, params)]

VoiceDecisions_default == VoiceDecisions_new(0, BaseParams_default)

\* 1 << (L - l): the position of the bit.  L - l is a usize subtraction.
mask(v, l) == v.params.harmonics - l

\* the subtraction in mask does not underflow
mask_ok(v, l) == l <= v.params.harmonics

force_voiced(v, l) == [v EXCEPT !.voiced = @ \cup {mask(v, l)}]

\* Faulty variant: the bands with a voiced harmonic are counted, not the
\* harmonics.
unvoiced_count_bands(v) ==
    v.params.harmonics - Cardinality({b \div 3 : b \in v.voiced})

unvoiced_count(v) == v.params.harmonics - Cardinality(v.voiced)

\* the u32 subtraction in unvoiced_count does not underflow
unvoiced_count_ok(v) == Cardinality(v.voiced) <= v.params.harmonics

\* Faulty variant: the test l > L is dropped; the usize subtraction wraps and
\* the shift count is taken modulo 64, as a build without overflow checks does.
is_voiced_unguarded(v, l) == ((v.params.harmonics - l) % 64) \in v.voiced

is_voiced(v, l) ==
    IF l > v.params.harmonics THEN FALSE ELSE mask(v, l) \in v.voiced

\* is_voiced computes the mask only when l <= L
is_voiced_ok(v, l) == l > v.params.harmonics \/ mask_ok(v, l)

-----------------------------------------------------------------------------
(* enhance.rs: error characterisation and the repeat / mute decisions.     *)

RECURSIVE SumTo(_, _)
SumTo(f, n) == IF n < 0 THEN 0 ELSE f[n] + SumTo(f, n - 1)

\* Faulty variant of EnhanceErrors::new: the previous rate is scaled by 1.05.
EnhanceErrors_growing(errors, prev_rate) ==
    LET total == SumTo(errors, 6)
    IN  [total |-> total,
         rate |-> 21 * (prev_rate \div 20) + 365 * total * Micro,
         golay_init |-> errors[0],
         hamming_init |-> errors[4]]

\* rate = 0.95 * prev_rate + 0.000365 * total
EnhanceErrors_new(errors, prev_rate) ==
    LET total == SumTo(errors, 6)
    IN  [total |-> total,
         rate |-> 19 * (prev_rate \div 20) + 365 * total * Micro,
         golay_init |-> errors[0],
         hamming_init |-> errors[4]]

\* golay_init >= 2 && total as f32 >= 10.0 + 40.0 * rate; in rate units
\* (total - 10) * 25000 * Micro >= rate, compared after dividing by the unit.
should_repeat(e) ==
    /\ e.golay_init >= 2
    /\ e.total - 10 >= CeilDiv(e.rate, 25000 * Micro)

\* Faulty variant of should_mute: no rate mutes the frame.
should_mute_never(e) == FALSE

\* rate > 0.0875
should_mute(e) == e.rate > 87500 * Micro

-----------------------------------------------------------------------------
(* window.rs: the synthesis window w_S, in units of 1/50.                  *)

WINDOW_SYNTHESIS ==
    <<
       0,1,2,3,4,5,6,7,8,9,10,11,12,13,14,15,16,17,18,19,20,21,22,23,
       24,25,26,27,28,29,30,31,32,33,34,35,36,37,38,39,40,41,42,43,44,45,46,47,
       48,49,50,50,50,50,50,50,50,50,50,50,50,50,50,50,50,50,50,50,50,50,50,50,
       50,50,50,50,50,50,50,50,50,50,50,50,50,50,50,50,50,50,50,50,50,50,50,50,
       50,50,50,50,50,50,50,50,50,50,50,50,50,50,50,50,50,50,50,50,50,50,50,50,
       50,50,50,50,50,50,50,50,50,50,50,50,50,50,50,50,50,50,50,50,50,50,50,50,
       50,50,50,50,50,50,50,50,50,50,50,50,50,50,50,50,50,49,48,47,46,45,44,43,
       42,41,40,39,38,37,36,35,34,33,32,31,30,29,28,27,26,25,24,23,22,21,20,19,
       18,17,16,15,14,13,12,11,10,9,8,7,6,5,4,3,2,1,0
    >>

\* Faulty variant: the offset is rounded up.
Window_new_up(coefs) == [coefs |-> coefs, offset |-> (Len(coefs) + 1) \div 2]

Window_new(coefs) == [coefs |-> coefs, offset |-> Len(coefs) \div 2]

synthesis_full == Window_new(WINDOW_SYNTHESIS)

\* coefs.get((n + offset) as usize): a negative index wraps and is out of range
Window_get(w, n) ==
    LET i == n + w.offset
    IN  IF i >= 0 /\ i < Len(w.coefs) THEN w.coefs[i + 1] ELSE 0

-----------------------------------------------------------------------------
(* allocs (the module is not in the tree): the bit allocation B_m,         *)
(* m = 3..L+1, with its maximum, for the two L of the worked frames.       *)

AllocKnown == {10, 16}

RECURSIVE SeqMax(_)
SeqMax(s) == IF s = <<>> THEN 0 ELSE Max(Head(s), SeqMax(Tail(s)))

allocs(harmonics) ==
    LET bits == IF harmonics = 10 THEN <<9, 9, 8, 8, 8, 9, 7, 6, 5>>
                ELSE <<6, 6, 6, 5, 5, 6, 6, 5, 4, 4, 3, 3, 3, 3, 2>>
    IN  <<bits, SeqMax(bits)>>

-----------------------------------------------------------------------------
(* scan.rs.                                                                *)

\* Faulty variant of ScanSep::new: the mask of scanned is !0 >> (10 + K), two
\* bits too wide.
ScanSep_wide_mask(chunks, params) ==
    LET parts == (chunks[4] * 2048) + chunks[5]
    IN  [voiced |-> Shr(parts, 22 - params.bands),
         idx_part |-> Shr(parts, 20 - params.bands) % 4,
         scanned |-> Low(parts, 22 - params.bands)]

\* parts = u4 << 11 | u5; voiced = parts >> (22 - K);
\* idx_part = parts >> (20 - K) & 0b11; scanned = parts & !0 >> (12 + K)
ScanSep_new(chunks, params) ==
    LET parts == (chunks[4] * 2048) + chunks[5]
    IN  [voiced |-> Shr(parts, 22 - params.bands),
         idx_part |-> Shr(parts, 20 - params.bands) % 4,
         scanned |-> Low(parts, 20 - params.bands)]

\* Faulty variant of ScanChunks::new: the separator keeps 22 - K bits.
ScanChunks_wide(chunks, sep, params) ==
    << <<chunks[0] % 8, 3>>, <<chunks[1], 12>>, <<chunks[2], 12>>,
       <<chunks[3], 12>>, <<sep, 22 - params.bands>>, <<chunks[6], 11>>,
       <<Shr(chunks[7], 4), 3>> >>

\* the seven (bits, width) items the iterator yields, in order
ScanChunks_new(chunks, sep, params) ==
    << <<chunks[0] % 8, 3>>, <<chunks[1], 12>>, <<chunks[2], 12>>,
       <<chunks[3], 12>>, <<sep, 20 - params.bands>>, <<chunks[6], 11>>,
       <<Shr(chunks[7], 4), 3>> >>

\* one chunk moved to the top of the 32-bit word and shifted out MSB first:
\* the j-th bit yielded is bit (r - j) of c; bits of c above r are lost
ChunkBits(c, r) == [j \in 1..r |-> Bit(c, r - j)]

RECURSIVE ScanBits_from(_, _)
ScanBits_from(items, k) ==
    IF k > Len(items) THEN <<>>
    ELSE ChunkBits(items[k][1], items[k][2]) \o ScanBits_from(items, k + 1)

\* every bit the iterator yields until it returns None
ScanBits_new(items) == ScanBits_from(items, 1)

\* The iterators step by step.  ScanChunks: pos is the start of the range
\* pos..7; next yields item pos and advances, or None when the range is empty.
ScanChunks_next(items, pos) ==
    IF pos < 7 THEN [some |-> TRUE, item |-> items[pos + 1], pos |-> pos + 1]
    ELSE [some |-> FALSE, item |-> <<0, 0>>, pos |-> pos]

\* ScanBits { chunks, chunk: 0, remain: 0 }
ScanBits_start == [pos |-> 0, chunk |-> 0, remain |-> 0]

\* Faulty variant of ScanBits::next: the bits of a chunk come out LSB first.
ScanBits_next_lsb(items, it) ==
    LET c == ScanChunks_next(items, it.pos)
        load == it.remain = 0
        chunk == IF load THEN Low(c.item[1], c.item[2]) ELSE it.chunk
        remain == IF load THEN c.item[2] ELSE it.remain
    IN  IF load /\ ~c.some
        THEN [some |-> FALSE, bit |-> 0, it |-> [it EXCEPT !.pos = c.pos]]
        ELSE [some |-> TRUE, bit |-> chunk % 2,
              it |-> [pos |-> IF load THEN c.pos ELSE it.pos,
                      chunk |-> chunk \div 2,
                      remain |-> remain - 1]]

\* ScanBits::next.  The code keeps the unread bits at the top of a u32
\* (chunk <<= 32 - remain, which drops the bits above remain) and yields
\* chunk >> 31; here the unread bits are kept at the bottom of the word, so
\* the bit yielded is bit remain - 1.
ScanBits_next(items, it) ==
    LET c == ScanChunks_next(items, it.pos)
        load == it.remain = 0
        chunk == IF load THEN Low(c.item[1], c.item[2]) ELSE it.chunk
        remain == IF load THEN c.item[2] ELSE it.remain
    IN  IF load /\ ~c.some
        THEN [some |-> FALSE, bit |-> 0, it |-> [it EXCEPT !.pos = c.pos]]
        ELSE [some |-> TRUE, bit |-> Bit(chunk, remain - 1),
              it |-> [pos |-> IF load THEN c.pos ELSE it.pos,
                      chunk |-> Low(chunk, remain - 1),
                      remain |-> remain - 1]]

-----------------------------------------------------------------------------
(* descramble.rs: gain index and quantized amplitudes.                     *)

\* Faulty variant: idx_part is not shifted over the low bit.
gain_idx_unshifted(chunks, idx_part) ==
    ((chunks[0] % 64) - (chunks[0] % 8)) + idx_part + Bit(chunks[7], 3)

\* chunks[0] & 0b111000 | idx_part << 1 | chunks[7] >> 3 & 1
gain_idx(chunks, idx_part) ==
    ((chunks[0] % 64) - (chunks[0] % 8)) + (2 * idx_part) + Bit(chunks[7], 3)

\* the amplitudes (1-based here) that take a bit at level idx, ascending
TakeLevel(bits, n, idx) ==
    LET Takes(i) == bits[i] > idx
    IN  SelectSeq([i \in 1..n |-> i], Takes)

\* for idx in (0..max).rev() { for i in 0..amps.len() { ... } }
RECURSIVE TakeOrder(_, _, _)
TakeOrder(bits, n, idx) ==
    IF idx < 0 THEN <<>>
    ELSE TakeLevel(bits, n, idx) \o TakeOrder(bits, n, idx - 1)

\* the scanned bits amplitude i takes, in the order it takes them
AmpBits(order, scan, i) ==
    LET Mine(p) == order[p] = i
        at == SelectSeq([p \in 1..Len(order) |-> p], Mine)
    IN  [k \in 1..Len(at) |-> scan[at[k]]]

\* amps[i] <<= 1; amps[i] |= bit, over the first k bits it takes
RECURSIVE ShiftIn(_, _)
ShiftIn(bits, k) == IF k = 0 THEN 0 ELSE (2 * ShiftIn(bits, k - 1)) + bits[k]

\* every scan.next().unwrap() finds a bit and the final assert finds none left
QuantizedAmplitudes_ok(scan, params) ==
    LET n == params.harmonics - 1
        a == allocs(params.harmonics)
    IN  /\ n <= Len(a[1])
        /\ Len(TakeOrder(a[1], n, a[2] - 1)) = Len(scan)

RECURSIVE SumSeq(_, _)
SumSeq(s, k) == IF k = 0 THEN 0 ELSE s[k] + SumSeq(s, k - 1)

\* Faulty variant of the two loops: amplitude by amplitude, each taking all
\* its bits at once.
QuantizedAmplitudes_amp_major(bits, max, scan, n) ==
    [i \in 1..n |->
        LET b == SubSeq(scan, SumSeq(bits, i - 1) + 1, SumSeq(bits, i))
        IN  ShiftIn(b, Len(b))]

\* the two loops of lines 86..99 for an allocation (bits, max) and n = L - 1
\* amplitudes that start at 0
QuantizedAmplitudes_fill(bits, max, scan, n) ==
    LET order == TakeOrder(bits, n, max - 1)
    IN  [i \in 1..n |-> LET b == AmpBits(order, scan, i) IN ShiftIn(b, Len(b))]

\* every unwrap finds a bit and the assert after the loops finds none left
QuantizedAmplitudes_fill_ok(bits, max, scan, n) ==
    /\ n <= Len(bits)
    /\ Len(TakeOrder(bits, n, max - 1)) = Len(scan)

QuantizedAmplitudes_new(scan, params) ==
    LET a == allocs(params.harmonics)
    IN  QuantizedAmplitudes_fill(a[1], a[2], scan, params.harmonics - 1)

\* self.0[m - 3]: the usize subtraction and the index are in range
QuantizedAmplitudes_get_ok(amps, m) == m >= 3 /\ m - 3 < Len(amps)

\* amps.get(m) = self.0[m - 3]
QuantizedAmplitudes_get(amps, m) == amps[m - 2]

descramble(chunks, params) ==
    LET parts == ScanSep_new(chunks, params)
    IN  [amps |-> QuantizedAmplitudes_new(
                      ScanBits_new(ScanChunks_new(chunks, parts.scanned, params)),
                      params),
         voice |-> VoiceDecisions_new(parts.voiced, params),
         gain_idx |-> gain_idx(chunks, parts.idx_part)]

descramble_ok(chunks, params) ==
    QuantizedAmplitudes_ok(
        ScanBits_new(ScanChunks_new(chunks, ScanSep_new(chunks, params).scanned,
                                    params)),
        params)

-----------------------------------------------------------------------------
(* gain (the module is not in the tree): the six gains R_i looked up from  *)
(* the 64-row quantizer table by the 6-bit index b2.  R_i stays symbolic.  *)

Gains_new(idx, amps, params) == [idx |-> idx]

\* the index selects one of the 64 rows
Gains_ok(idx) == idx >= 0 /\ idx < 64

-----------------------------------------------------------------------------
(* coefs.rs.                                                               *)

AMPS_USED ==
    <<
       <<0,0,0,1,1,1>>, <<0,0,1,1,1,1>>, <<0,1,1,1,1,1>>, <<1,1,1,1,1,1>>,
       <<1,1,1,1,1,2>>, <<1,1,1,1,2,2>>, <<1,1,1,2,2,2>>, <<1,1,2,2,2,2>>,
       <<1,2,2,2,2,2>>, <<2,2,2,2,2,2>>, <<2,2,2,2,2,3>>, <<2,2,2,2,3,3>>,
       <<2,2,2,3,3,3>>, <<2,2,3,3,3,3>>, <<2,3,3,3,3,3>>, <<3,3,3,3,3,3>>,
       <<3,3,3,3,3,4>>, <<3,3,3,3,4,4>>, <<3,3,3,4,4,4>>, <<3,3,4,4,4,4>>,
       <<3,4,4,4,4,4>>, <<4,4,4,4,4,4>>, <<4,4,4,4,4,5>>, <<4,4,4,4,5,5>>,
       <<4,4,4,5,5,5>>, <<4,4,5,5,5,5>>, <<4,5,5,5,5,5>>, <<5,5,5,5,5,5>>,
       <<5,5,5,5,5,6>>, <<5,5,5,5,6,6>>, <<5,5,5,6,6,6>>, <<5,5,6,6,6,6>>,
       <<5,6,6,6,6,6>>, <<6,6,6,6,6,6>>, <<6,6,6,6,6,7>>, <<6,6,6,6,7,7>>,
       <<6,6,6,7,7,7>>, <<6,6,7,7,7,7>>, <<6,7,7,7,7,7>>, <<7,7,7,7,7,7>>,
       <<7,7,7,7,7,8>>, <<7,7,7,7,8,8>>, <<7,7,7,8,8,8>>, <<7,7,8,8,8,8>>,
       <<7,8,8,8,8,8>>, <<8,8,8,8,8,8>>, <<8,8,8,8,8,9>>, <<8,8,8,8,9,9>>
    >>

\* in units of 1/100
DCT_STEP_SIZE == <<120, 85, 65, 40, 28, 15, 8, 4, 2, 1>>

\* in units of 1/1000
DCT_STD_DEV == <<307, 241, 207, 190, 179, 173, 165, 170, 170>>

\* capacity of the ArrayVec<[f32; 10]> behind a CoefBlock
CoefBlockCap == 10

\* every index the constructor of block i takes is in range: the row of
\* Faulty variant: the row of the next L is read.
AmpsUsed_next_row(harmonics) ==
    AMPS_USED[Min((harmonics - MIN_HARMONICS) + 2, Len(AMPS_USED))]

\* blocks = &AMPS_USED[params.harmonics as usize - MIN_HARMONICS]
AmpsUsed_blocks(harmonics) == AMPS_USED[(harmonics - MIN_HARMONICS) + 1]

\* the index of that row is inside the table
AmpsUsed_ok(harmonics) ==
    /\ harmonics - MIN_HARMONICS >= 0
    /\ harmonics - MIN_HARMONICS < Len(AMPS_USED)

\* AMPS_USED, alloc[m - 3], DCT_STEP_SIZE[bits - 1], DCT_STD_DEV[k], amps.get(m)
CoefBlock_ok(block, start, amps, params) ==
    LET row == (params.harmonics - MIN_HARMONICS) + 1
        alloc == allocs(params.harmonics)[1]
    IN  /\ block >= 1 /\ block <= 6
        /\ row >= 1 /\ row <= Len(AMPS_USED)
        /\ \A k \in 0..Min(AMPS_USED[row][block], CoefBlockCap - 1) - 1 :
              LET m == start + k
              IN  /\ m - 3 >= 0 /\ m - 3 < Len(alloc)
                  /\ alloc[m - 2] # 0 =>
                        /\ alloc[m - 2] <= Len(DCT_STEP_SIZE)
                        /\ k < Len(DCT_STD_DEV)
                        /\ m - 3 < Len(amps)

\* C_i,1 = R_i is the symbolic gain of the block; C_i,k for k >= 2 is
\* STEP[bits - 1] * STD[k] * (b_m - 2^(bits-1) + 0.5), here in units of
\* 1/200000; pushes past the capacity are dropped
CoefBlock_new(block, start, gains, amps, params) ==
    LET row == (params.harmonics - MIN_HARMONICS) + 1
        alloc == allocs(params.harmonics)[1]
        n == Min(AMPS_USED[row][block], CoefBlockCap - 1)
    IN  [gain |-> <<gains.idx, block>>,
         c |-> [j \in 1..n |->
                  LET m == start + (j - 1)
                      bits == alloc[m - 2]
                  IN  IF bits = 0 THEN 0
                      ELSE DCT_STEP_SIZE[bits] * DCT_STD_DEV[j] *
                           (((2 * QuantizedAmplitudes_get(amps, m)) - Pow(2, bits)) + 1)]]

CoefBlock_len(b) == 1 + Len(b.c)

\* blocks 1..6 in order: cur starts at 8 and advances by len - 1 per block
RECURSIVE CoefBlocks_from(_, _, _, _, _)
CoefBlocks_from(block, start, gains, amps, params) ==
    IF block > 6 THEN <<>>
    ELSE LET b == CoefBlock_new(block, start, gains, amps, params)
         IN  <<b>> \o CoefBlocks_from(block + 1, start + (CoefBlock_len(b) - 1),
                                      gains, amps, params)

RECURSIVE CoefBlocks_ok(_, _, _, _, _)
CoefBlocks_ok(block, start, gains, amps, params) ==
    IF block > 6 THEN TRUE
    ELSE /\ CoefBlock_ok(block, start, amps, params)
         /\ CoefBlocks_ok(block + 1,
                start + (CoefBlock_len(CoefBlock_new(block, start, gains, amps, params)) - 1),
                gains, amps, params)

RECURSIVE SumLen(_, _)
SumLen(blocks, k) ==
    IF k = 0 THEN 0 ELSE CoefBlock_len(blocks[k]) + SumLen(blocks, k - 1)

\* the vector T_l: every block contributes len entries, up to 56 in all
Coefficients_new(gains, amps, params) ==
    LET blocks == CoefBlocks_from(1, 8, gains, amps, params)
    IN  [blocks |-> blocks, len |-> Min(SumLen(blocks, Len(blocks)), MAX_HARMONICS)]

Coefficients_ok(gains, amps, params) == CoefBlocks_ok(1, 8, gains, amps, params)

-----------------------------------------------------------------------------
(* spectral.rs.  The amplitudes M_l are symbolic: what is kept is how many *)
(* there are and whether they are the default (all exactly 1).             *)

Spectrals_default == [len |-> MAX_HARMONICS, unit |-> TRUE]

\* coefs.get(l) for l = 1..L indexes the vector; prev.spectrals.get(k) past
\* the end unwraps the last element
Spectrals_ok(coefs, params, p) ==
    /\ params.harmonics <= coefs.len
    /\ p.spectrals.len > 0

Spectrals_new(coefs, params, p) ==
    [len |-> Min(params.harmonics, MAX_HARMONICS), unit |-> FALSE]

-----------------------------------------------------------------------------
(* enhance.rs: frame energy, enhancement, adaptive smoothing.  R_M0 is the *)
(* sum of squares of symbolic amplitudes: it is an input (rm0) here.  An   *)
(* enhanced amplitude vector is its length and the common sign of its      *)
(* entries (1: positive, 0: all exactly zero, -1: negative).               *)

FrameEnergy_default == [energy |-> 0, tracking |-> 75000 * Micro]

\* Faulty variant: the tracker is not floored.
FrameEnergy_unfloored(rm0, prevEnergy) ==
    [energy |-> rm0,
     tracking |-> (19 * (prevEnergy.tracking \div 20)) + ((rm0 * Micro) \div 20)]

\* tracking = (0.95 * prev.tracking + 0.05 * energy).max(10000.0)
FrameEnergy_new(rm0, prevEnergy) ==
    [energy |-> rm0,
     tracking |-> Max((19 * (prevEnergy.tracking \div 20)) + ((rm0 * Micro) \div 20),
                      10000 * Micro)]

\* Faulty variant of the default: thirty amplitudes of one.
EnhancedSpectrals_ones == [len |-> 30, sgn |-> 1]

EnhancedSpectrals_default == [len |-> 0, sgn |-> 0]

\* one weighted, rescaled amplitude per spectral amplitude
EnhancedSpectrals_new(spectrals, fen, params) == [len |-> spectrals.len, sgn |-> 1]

\* assert!(l >= 1); out-of-bounds amplitudes are zero
EnhancedSpectrals_get(e, l) == IF l - 1 < e.len THEN e.sgn ELSE 0

\* rate <= 0.005 && total <= 6 ? 20480 : 6000 - 300 * total + prev
amp_thresh(errors, prevThresh) ==
    IF errors.rate <= 5000 * Micro /\ errors.total <= 6 THEN 20480
    ELSE (6000 - (300 * errors.total)) + prevThresh

Sgn(x) == IF x > 0 THEN 1 ELSE IF x < 0 THEN -1 ELSE 0

\* the first branch of Eq 112: the threshold is f32::MAX, nothing exceeds it
thresh_is_max(errors) == errors.rate <= 5000 * Micro /\ errors.total <= 4

\* std::f32::MAX: above every amplitude of the model
F32_MAX == 2147483647

\* t^0.375 for t an eighth power: (r^8)^0.375 = r^3
powf_0375(t) == LET r == CHOOSE r \in 1..8 : Pow(r, 8) = t IN Pow(r, 3)

\* exp(277.26 * rate) for a rate that is a multiple of 0.0025: 277.26 is
\* 400 ln 2 to within 4 * 10^-6, so the value is 2^(400 rate) to within
\* 1.4 * 10^-5 of itself
exp_27726(rate) == Pow(2, rate \div (2500 * Micro))

\* Faulty variant of Eq 112: the first test is total <= 6, as in amp_thresh.
smooth_thresh_total6(errors, fen) ==
    IF errors.rate <= 5000 * Micro /\ errors.total <= 6 THEN F32_MAX
    ELSE IF errors.rate <= 12500 * Micro /\ errors.hamming_init = 0
    THEN (45255 * powf_0375(fen.tracking \div Micro)) \div exp_27726(errors.rate)
    ELSE 1414 * powf_0375(fen.tracking \div Micro)

\* Eq 112 in units of 1/1000, rounded down (the amplitudes compared with it
\* are whole numbers of 1/1000)
smooth_thresh(errors, fen) ==
    IF errors.rate <= 5000 * Micro /\ errors.total <= 4 THEN F32_MAX
    ELSE IF errors.rate <= 12500 * Micro /\ errors.hamming_init = 0
    THEN (45255 * powf_0375(fen.tracking \div Micro)) \div exp_27726(errors.rate)
    ELSE 1414 * powf_0375(fen.tracking \div Micro)

\* for (l, &m) in enhanced.iter().enumerate() { if m > thresh { .. l + 1 .. } }
smooth_loud(amps, errors, fen) ==
    {l \in 1..Len(amps) : amps[l] > smooth_thresh(errors, fen)}

\* the harmonics forced voiced: those of the loud ones (m > thresh) that exist
smooth_forced(enhanced, errors, loud) ==
    IF thresh_is_max(errors) THEN {} ELSE loud \cap (1..enhanced.len)

\* force_voiced(l + 1) computes 1 << (L - l) for each forced harmonic
smooth_ok(enhanced, voiced, errors, loud) ==
    \A l \in smooth_forced(enhanced, errors, loud) : mask_ok(voiced, l)

\* scale = (amp_thresh / amp).min(1.0) with amp > 0 multiplies every entry
smooth(enhanced, voiced, errors, fen, thresh, loud) ==
    [enhanced |-> [enhanced EXCEPT !.sgn = @ * Sgn(thresh)],
     voice |-> [voiced EXCEPT !.voiced =
                   @ \cup {mask(voiced, l) : l \in smooth_forced(enhanced, errors, loud)}]]

-----------------------------------------------------------------------------
(* unvoiced.rs.  The 256-bin spectrum is the set of the array indices that *)
(* were written with a nonzero value, with the identity of the noise draw  *)
(* the values come from (0 when nothing was written).                      *)

UnvoicedDFT_default == [bins |-> {}, noise |-> 0]

\* Faulty variant: the edges are rounded down.
edges_floor(l, params) ==
    LET num == params.fundamental[1]
        den == params.fundamental[2]
    IN  <<FloorDiv(64 * ((2 * l) - 1) * num, den), FloorDiv(64 * ((2 * l) + 1) * num, den)>>

\* Faulty variant: the upper edge is one bin further.
edges_overlap(l, params) ==
    LET num == params.fundamental[1]
        den == params.fundamental[2]
    IN  <<CeilDiv(64 * ((2 * l) - 1) * num, den),
          CeilDiv(64 * ((2 * l) + 1) * num, den) + 1>>

\* edge(x) = 256 / (2 pi) * x * w0 = 64 * (2x) * num / den, rounded up
edges(l, params) ==
    LET num == params.fundamental[1]
        den == params.fundamental[2]
    IN  <<CeilDiv(64 * ((2 * l) - 1) * num, den), CeilDiv(64 * ((2 * l) + 1) * num, den)>>

\* the harmonics the loop does not skip
UnvoicedHarmonics(voice, enhanced) == {l \in 1..enhanced.len : ~is_voiced(voice, l)}

\* dft.get(m) for m in lower..upper and for -m, and the two slices of parts,
\* stay inside the 256 entries
UnvoicedParts_ok(params, voice, enhanced) ==
    \A l \in UnvoicedHarmonics(voice, enhanced) :
        LET e == edges(l, params)
        IN  e[1] >= 0 /\ e[1] <= e[2] /\ e[2] <= 128

\* Faulty variant of UnvoicedParts::new: the mirrored slice is
\* parts[128 - upper .. 128 - lower], one entry too low.
UnvoicedParts_low_mirror(params, voice, enhanced, noise) ==
    LET band(l) == LET e == edges(l, params)
                   IN  ((128 + e[1])..((128 + e[2]) - 1)) \cup
                       ((128 - e[2])..((128 - e[1]) - 1))
        bins == IF enhanced.sgn = 0 THEN {}
                ELSE UNION {band(l) : l \in UnvoicedHarmonics(voice, enhanced)}
    IN  [bins |-> bins, noise |-> IF bins = {} THEN 0 ELSE noise]

UnvoicedParts_new(params, voice, enhanced, noise) ==
    LET band(l) == LET e == edges(l, params)
                   IN  ((128 + e[1])..((128 + e[2]) - 1)) \cup
                       (((128 - e[2]) + 1)..(128 - e[1]))
        bins == IF enhanced.sgn = 0 THEN {}
                ELSE UNION {band(l) : l \in UnvoicedHarmonics(voice, enhanced)}
    IN  [bins |-> bins, noise |-> IF bins = {} THEN 0 ELSE noise]

\* 0 outside -128..127; otherwise a sum over all 256 bins, which is exactly
\* zero when no bin was written
idft(parts, n) ==
    IF n < -128 \/ n > 127 THEN 0 ELSE parts.noise * Cardinality(parts.bins)

Unvoiced_new(c, p) == [cur |-> c, prev |-> p, window |-> synthesis_full]

\* the value of a sample whose denominator is zero
NaN == <<-1, -1>>

\* Faulty variant: the window of the current frame is taken at n - 159.
Unvoiced_weights_159(u, n) ==
    <<Window_get(u.window, n), Window_get(u.window, n - (SAMPLES_PER_FRAME - 1))>>

\* self.window.get(n) and self.window.get(n - SAMPLES as isize)
Unvoiced_weights(u, n) ==
    <<Window_get(u.window, n), Window_get(u.window, n - SAMPLES_PER_FRAME)>>

\* numer / denom, kept as the two terms of numer
Unvoiced_get(u, n) ==
    LET wp == Unvoiced_weights(u, n)[1]
        wc == Unvoiced_weights(u, n)[2]
    IN  IF (wp * wp) + (wc * wc) = 0 THEN NaN
        ELSE <<wp * idft(u.prev, n), wc * idft(u.cur, n - SAMPLES_PER_FRAME)>>

-----------------------------------------------------------------------------
(* voiced.rs.  Psi_l = sum over the frames of (w0_prev + w0) * 80 * l: the *)
(* phase base is the sequence of the pairs of fundamentals added so far.   *)

PhaseBase_default == <<>>

PhaseBase_new(params, p) ==
    Append(p.phase_base, <<p.params.fundamental, params.fundamental>>)

Phase_default == [base |-> PhaseBase_default, pert |-> <<>>]

\* &mut phase[start..stop] is a slice of the 56 entries
Phase_ok(params, p, voice) ==
    /\ unvoiced_count_ok(voice)
    /\ params.harmonics \div 4 <= Max(params.harmonics, p.params.harmonics)
    /\ Max(params.harmonics, p.params.harmonics) <= MAX_HARMONICS

\* Faulty variant of Phase::new: the slice stops at the current L.
Phase_new_cur_only(base, params, p, voice, noise) ==
    LET start == params.harmonics \div 4
        stop == params.harmonics
        luv == unvoiced_count(voice)
    IN  [base |-> base,
         pert |-> IF luv = 0 \/ start >= stop THEN <<>>
                  ELSE <<start, stop, luv, params.harmonics, noise>>]

\* entries start..stop-1 get scale * noise added, scale = unvoiced_count / L
Phase_new(base, params, p, voice, noise) ==
    LET start == params.harmonics \div 4
        stop == Max(params.harmonics, p.params.harmonics)
        luv == unvoiced_count(voice)
    IN  [base |-> base,
         pert |-> IF luv = 0 \/ start >= stop THEN <<>>
                  ELSE <<start, stop, luv, params.harmonics, noise>>]

\* noise.gen_range(-PI, PI) on a grid: the i-th draw of a stream is q * pi /
\* PhaseGrid with q in -PhaseGrid .. PhaseGrid - 1 (the range is half open)
Draw(stream, i) ==
    CASE stream = "low" -> -PhaseGrid
      [] stream = "high" -> PhaseGrid - 1
      [] stream = "zero" -> 0
      [] OTHER -> IF i % 2 = 1 THEN -PhaseGrid ELSE PhaseGrid - 1

\* phase.get(l) - base.get(l) in units of pi / (PhaseGrid * L): map_in_place
\* gives entry start + i - 1 (harmonic start + i) the i-th draw times
\* scale = L_uv / L
Phase_offset(phase, l, stream) ==
    IF phase.pert = <<>> THEN 0
    ELSE IF l > phase.pert[1] /\ l <= phase.pert[2]
    THEN phase.pert[3] * Draw(stream, l - phase.pert[1])
    ELSE 0

Voiced_new(params, p, phase, amps, voice) ==
    [prev |-> p, phase |-> phase, amps |-> amps, voice |-> voice,
     window |-> synthesis_full, fundamental |-> params.fundamental,
     end_ |-> Max(params.harmonics, p.params.harmonics)]

\* window.get(n - 160) * amps.get(l) * cos(..)
sig_cur(v, l, n) ==
    Window_get(v.window, n - SAMPLES_PER_FRAME) * EnhancedSpectrals_get(v.amps, l)

\* window.get(n) * prev.enhanced.get(l) * cos(..)
sig_prev(v, l, n) == Window_get(v.window, n) * EnhancedSpectrals_get(v.prev.enhanced, l)

\* the pair <<previous-frame term, current-frame term>> of harmonic l
get_pair(v, l, n) ==
    LET c == is_voiced(v.voice, l)
        p == is_voiced(v.prev.voice, l)
    IN  <<IF p THEN sig_prev(v, l, n) ELSE 0, IF c THEN sig_cur(v, l, n) ELSE 0>>

\* the fold over l = lo..hi of get_pair(l, n), both components
RECURSIVE SumPairs(_, _, _, _)
SumPairs(v, lo, hi, n) ==
    IF lo > hi THEN <<0, 0>>
    ELSE IF lo = hi THEN get_pair(v, lo, n)
    ELSE LET mid == (lo + hi) \div 2
             a == SumPairs(v, lo, mid, n)
             b == SumPairs(v, mid + 1, hi, n)
         IN  <<a[1] + b[1], a[2] + b[2]>>

\* 2 * sum over l = 1..end of get_pair(l, n)
Voiced_get(v, n) ==
    LET s == SumPairs(v, 1, v.end_, n) IN <<2 * s[1], 2 * s[2]>>

\* get_pair without its window factors, which do not depend on l
pair_amps(v, l) ==
    <<IF is_voiced(v.prev.voice, l) THEN EnhancedSpectrals_get(v.prev.enhanced, l) ELSE 0,
      IF is_voiced(v.voice, l) THEN EnhancedSpectrals_get(v.amps, l) ELSE 0>>

RECURSIVE SumAmps(_, _, _)
SumAmps(v, lo, hi) ==
    IF lo > hi THEN <<0, 0>>
    ELSE IF lo = hi THEN pair_amps(v, lo)
    ELSE LET mid == (lo + hi) \div 2
             a == SumAmps(v, lo, mid)
             b == SumAmps(v, mid + 1, hi)
         IN  <<a[1] + b[1], a[2] + b[2]>>

\* Voiced_get with the sum over l already taken (s = SumAmps(v, 1, end)):
\* the window factors w(n), w(n - 160) multiply it
Voiced_scaled(v, s, n) ==
    <<2 * Window_get(v.window, n) * s[1],
      2 * Window_get(v.window, n - SAMPLES_PER_FRAME) * s[2]>>

\* u.get(n) + v.get(n): the four terms, all zero exactly when the sample is
Sample(u, v, n) == Unvoiced_get(u, n) \o Voiced_get(v, n)

\* the same sample, the sum over the harmonics given
SampleOf(u, v, s, n) == Unvoiced_get(u, n) \o Voiced_scaled(v, s, n)

Zero == <<0, 0, 0, 0>>

-----------------------------------------------------------------------------
(* prev.rs.                                                                *)

PrevFrame_default ==
    [params |-> BaseParams_default,
     spectrals |-> Spectrals_default,
     enhanced |-> EnhancedSpectrals_default,
     voice |-> VoiceDecisions_default,
     err_rate |-> 0,
     energy |-> FrameEnergy_default,
     amp_thresh |-> 0,
     unvoiced |-> UnvoicedDFT_default,
     phase_base |-> PhaseBase_default,
     phase |-> Phase_default]

-----------------------------------------------------------------------------
(* decode.rs: the frame driver.                                            *)

\* Faulty variant of the driver: the mute test comes before the repeat test.
DecodePath_mute_first(chunks, errors, prev_rate) ==
    LET b == Bootstrap_new(chunks)
        e == EnhanceErrors_new(errors, prev_rate)
    IN  IF b.tag = "Invalid" THEN [kind |-> "repeat", by |-> "bootstrap"]
        ELSE IF b.tag = "Silence" THEN [kind |-> "silence", by |-> "bootstrap"]
        ELSE IF should_mute(e) THEN [kind |-> "silence", by |-> "fec"]
        ELSE IF should_repeat(e) THEN [kind |-> "repeat", by |-> "fec"]
        ELSE [kind |-> "synth", by |-> "none"]

\* the branch decode takes, and what decided it, as far as line 65
DecodePath(chunks, errors, prev_rate) ==
    LET b == Bootstrap_new(chunks)
        e == EnhanceErrors_new(errors, prev_rate)
    IN  IF b.tag = "Invalid" THEN [kind |-> "repeat", by |-> "bootstrap"]
        ELSE IF b.tag = "Silence" THEN [kind |-> "silence", by |-> "bootstrap"]
        ELSE IF should_repeat(e) THEN [kind |-> "repeat", by |-> "fec"]
        ELSE IF should_mute(e) THEN [kind |-> "silence", by |-> "fec"]
        ELSE [kind |-> "synth", by |-> "none"]

Samples == 0..(SAMPLES_PER_FRAME - 1)

\* Faulty variant of silence: the first sample is left as it was.
silence_keep_first(b) == [n \in Samples |-> IF n = 0 THEN b[n] ELSE Zero]

\* (0..SAMPLES_PER_FRAME).map(|_| 0.0).collect_slice_checked(&mut buf[..])
silence(b) == [n \in Samples |-> Zero]

\* no slice bound or subtraction fails while the previous frame is rebuilt
repeat_ok(p) ==
    /\ UnvoicedParts_ok(p.params, p.voice, p.enhanced)
    /\ Phase_ok(p.params, p, p.voice)

\* Faulty variant of repeat: the frame is rebuilt from the default parameters
\* and decisions, not from the saved ones.
repeat_default(p, noise) ==
    LET params == BaseParams_default
        voice == VoiceDecisions_default
        enhanced == p.enhanced
        udft == UnvoicedParts_new(params, voice, enhanced, noise)
        vbase == PhaseBase_new(params, p)
        vphase == Phase_new(vbase, params, p, voice, noise)
        unvoiced == Unvoiced_new(udft, p.unvoiced)
        voiced == Voiced_new(params, p, vphase, enhanced, voice)
        s == SumAmps(voiced, 1, voiced.end_)
    IN  [n \in Samples |-> SampleOf(unvoiced, voiced, s, n)]

repeat(p, noise) ==
    LET params == p.params
        voice == p.voice
        enhanced == p.enhanced
        udft == UnvoicedParts_new(params, voice, enhanced, noise)
        vbase == PhaseBase_new(params, p)
        vphase == Phase_new(vbase, params, p, voice, noise)
        unvoiced == Unvoiced_new(udft, p.unvoiced)
        voiced == Voiced_new(params, p, vphase, enhanced, voice)
        s == SumAmps(voiced, 1, voiced.end_)
    IN  [n \in Samples |-> SampleOf(unvoiced, voiced, s, n)]

\* lines 67..80: the locals that become the next PrevFrame
Pipeline(f, p, env) ==
    LET period_ == Bootstrap_new(f.chunks).p
        errors == EnhanceErrors_new(f.errors, p.err_rate)
        params == BaseParams_new(period_)
        d == descramble(f.chunks, params)
        gains == Gains_new(d.gain_idx, d.amps, params)
        coefs == Coefficients_new(gains, d.amps, params)
        spectrals == Spectrals_new(coefs, params, p)
        energy == FrameEnergy_new(env.rm0, p.energy)
        enhanced0 == EnhancedSpectrals_new(spectrals, energy, params)
        thresh == amp_thresh(errors, p.amp_thresh)
        sm == smooth(enhanced0, d.voice, errors, energy, thresh, env.loud)
        udft == UnvoicedParts_new(params, sm.voice, sm.enhanced, env.noise)
        vbase == PhaseBase_new(params, p)
        vphase == Phase_new(vbase, params, p, sm.voice, env.noise)
    IN  [params |-> params, spectrals |-> spectrals, enhanced |-> sm.enhanced,
         voice |-> sm.voice, err_rate |-> errors.rate, energy |-> energy,
         amp_thresh |-> thresh, unvoiced |-> udft, phase_base |-> vbase,
         phase |-> vphase]

\* no unwrap, assert, index or slice of lines 67..80 fails
Pipeline_ok(f, p, env) ==
    LET period_ == Bootstrap_new(f.chunks).p
        errors == EnhanceErrors_new(f.errors, p.err_rate)
        params == BaseParams_new(period_)
        d == descramble(f.chunks, params)
        gains == Gains_new(d.gain_idx, d.amps, params)
        coefs == Coefficients_new(gains, d.amps, params)
        spectrals == Spectrals_new(coefs, params, p)
        energy == FrameEnergy_new(env.rm0, p.energy)
        enhanced0 == EnhancedSpectrals_new(spectrals, energy, params)
        thresh == amp_thresh(errors, p.amp_thresh)
        sm == smooth(enhanced0, d.voice, errors, energy, thresh, env.loud)
    IN  /\ descramble_ok(f.chunks, params)
        /\ Gains_ok(d.gain_idx)
        /\ Coefficients_ok(gains, d.amps, params)
        /\ Spectrals_ok(coefs, params, p)
        /\ smooth_ok(enhanced0, d.voice, errors, env.loud)
        /\ UnvoicedParts_ok(params, sm.voice, sm.enhanced)
        /\ Phase_ok(params, p, sm.voice)

\* Faulty variant of the split: consecutive chunks share one sample.
chunk_start_overlap(i) == i * (SAMPLES_PER_THREAD - 1)

\* buf.chunks_mut(SAMPLES_PER_THREAD).enumerate(): chunk i starts here
chunk_start(i) == i * SAMPLES_PER_THREAD

\* let start = i * SAMPLES_PER_THREAD; let stop = start + SAMPLES_PER_THREAD
worker_start(i) == i * SAMPLES_PER_THREAD

worker_stop(i) == worker_start(i) + SAMPLES_PER_THREAD

Workers == 0..(THREADS - 1)

\* who wrote a sample: worker i, or the calling thread (numbered after them)
WorkerId(i) == i

Caller == THREADS

\* the two synthesizers the workers share; they borrow the locals and prev
Synth_unvoiced == Unvoiced_new(cur.unvoiced, prev.unvoiced)

Synth_voiced == Voiced_new(cur.params, prev, cur.phase, cur.enhanced, cur.voice)

-----------------------------------------------------------------------------
(* The frames offered to the decoder, and the outcomes of what the model   *)
(* leaves symbolic.                                                        *)

\* u0 = 0b111111000000, u7 = 0b10: b0 = 253 (descramble.rs, test_invalid_period)
InvalidChunks == Chunks(4032, 0, 0, 0, 0, 0, 0, 2)

\* u0 = 0b110110000000: b0 = 216
SilenceChunks == Chunks(3456, 0, 0, 0, 0, 0, 0, 0)

\* L = 16, K = 6 (descramble.rs, test_descramble_16)
S1Chunks == Chunks(530, 3276, 3640, 4095, 1333, 378, 955, 8)

\* L = 10, K = 4 (descramble.rs, test_descramble_10)
S2Chunks == Chunks(82, 3276, 3640, 4095, 1717, 378, 955, 8)

NoErrors == Errors(0, 0, 0, 0, 0, 0, 0)

\* e0 >= 2 and eT = 12 >= 10 + 40 * 0.00438
RepeatErrors == Errors(2, 0, 0, 0, 10, 0, 0)

\* eT = 20, e0 < 2, e4 # 0: neither repeated nor (from a low rate) muted
MidErrors == Errors(1, 0, 0, 0, 1, 0, 18)

\* the counts are unchecked usize: eT = 240 alone lifts the rate over 0.0875
MuteErrors == Errors(0, 0, 0, 0, 0, 0, 240)

\* eT = 239, e0 < 2: eR = 0.087235 from a rate of 0, just under the mute
\* threshold
HighErrors == Errors(0, 0, 0, 0, 0, 0, 239)

ErrorSet == {NoErrors, RepeatErrors, MidErrors, MuteErrors}

\* the error counts do not reach the code before the period is valid: the
\* frames with no period come with one error tuple
Frames ==
    {[chunks |-> c, errors |-> NoErrors] : c \in {InvalidChunks, SilenceChunks}}
        \cup {[chunks |-> c, errors |-> e] : c \in {S1Chunks, S2Chunks}, e \in ErrorSet}
        \cup {[chunks |-> S1Chunks, errors |-> HighErrors]}

\* one outcome of a call: the noise drawn, the energy R_M0 of the decoded
\* amplitudes, and the harmonics whose enhanced amplitude exceeds the
\* smoothing threshold
Outcomes ==
    {[noise |-> 1, rm0 |-> 900, loud |-> {}],
     [noise |-> 2, rm0 |-> 200000, loud |-> {4}]}

-----------------------------------------------------------------------------
(* The decoder as a state machine.                                         *)

\* a sample slot the decoder has not written: the caller's old content
Stale == <<-1, 0, 0, 0>>

InitDecoder ==
    /\ prev = PrevFrame_default
    /\ buf = [n \in Samples |-> Stale]
    /\ writes = [n \in Samples |-> <<>>]
    /\ pc = "idle"
    /\ cur = Null
    /\ wpos = [i \in Workers |-> 0]
    /\ path = [kind |-> "none", by |-> "none"]
    /\ frame = Null
    /\ nsynth = 0

Init == InitDecoder /\ probe = Null

Panic == [kind |-> "panic", by |-> "none"]

CanCall == pc = "idle" /\ path.kind # "panic"

\* decode returning through self.silence(buf)
DecodeSilence ==
    /\ CanCall
    /\ \E f \in Frames :
         /\ DecodePath(f.chunks, f.errors, prev.err_rate).kind = "silence"
         /\ frame' = f
         /\ path' = DecodePath(f.chunks, f.errors, prev.err_rate)
         /\ buf' = silence(buf)
         /\ writes' = [n \in Samples |-> <<Caller>>]
    /\ UNCHANGED <<prev, pc, cur, wpos, nsynth, probe>>

\* decode returning through self.repeat(buf)
DecodeRepeat ==
    /\ CanCall
    /\ \E env \in Outcomes :
         LET out == repeat(prev, env.noise)
         IN  \E f \in Frames :
               /\ DecodePath(f.chunks, f.errors, prev.err_rate).kind = "repeat"
               /\ frame' = f
               /\ IF repeat_ok(prev)
                  THEN /\ path' = DecodePath(f.chunks, f.errors, prev.err_rate)
                       /\ buf' = out
                       /\ writes' = [n \in Samples |-> <<Caller>>]
                  ELSE /\ path' = Panic
                       /\ writes' = [n \in Samples |-> <<>>]
                       /\ UNCHANGED buf
    /\ UNCHANGED <<prev, pc, cur, wpos, nsynth, probe>>

\* decode up to the spawning of the workers (lines 41..99)
DecodeSynth ==
    /\ CanCall
    /\ nsynth < MaxSynth
    /\ \E f \in Frames, env \in Outcomes :
         /\ DecodePath(f.chunks, f.errors, prev.err_rate).kind = "synth"
         /\ frame' = f
         /\ writes' = [n \in Samples |-> <<>>]
         /\ IF Pipeline_ok(f, prev, env)
            THEN /\ path' = DecodePath(f.chunks, f.errors, prev.err_rate)
                 /\ cur' = Pipeline(f, prev, env)
                 /\ pc' = "synth"
                 /\ wpos' = [i \in Workers |-> 0]
            ELSE /\ path' = Panic
                 /\ UNCHANGED <<cur, pc, wpos>>
    /\ UNCHANGED <<prev, buf, nsynth, probe>>

\* worker i collects its next samples into its chunk: the k-th value of
\* (start..stop).map(|n| u.get(n) + v.get(n)) goes to chunk[k]
Worker(i) ==
    /\ pc = "synth"
    /\ wpos[i] < worker_stop(i) - worker_start(i)
    /\ LET k0 == wpos[i]
           k1 == Min(k0 + WriteStep, worker_stop(i) - worker_start(i))
           Mine(n) == n - chunk_start(i) >= k0 /\ n - chunk_start(i) < k1
           u == Synth_unvoiced
           v == Synth_voiced
           s == SumAmps(v, 1, v.end_)
       IN  /\ buf' = [n \in Samples |->
                        IF Mine(n)
                        THEN SampleOf(u, v, s, worker_start(i) + (n - chunk_start(i)))
                        ELSE buf[n]]
           /\ writes' = [n \in Samples |->
                           IF Mine(n) THEN Append(writes[n], WorkerId(i))
                           ELSE writes[n]]
           /\ wpos' = [wpos EXCEPT ![i] = k1]
    /\ UNCHANGED <<prev, pc, cur, path, frame, nsynth, probe>>

\* Faulty variant: the driver goes on when one worker has finished.
AllDone_any == \E i \in Workers : wpos[i] = worker_stop(i) - worker_start(i)

AllDone == \A i \in Workers : wpos[i] = worker_stop(i) - worker_start(i)

\* the scope joins every worker, then self.prev = PrevFrame { .. }
Save ==
    /\ pc = "synth"
    /\ AllDone
    /\ prev' = cur
    /\ cur' = Null
    /\ pc' = "idle"
    /\ wpos' = [i \in Workers |-> 0]
    /\ nsynth' = nsynth + 1
    /\ UNCHANGED <<buf, writes, path, frame, probe>>

Next ==
    \/ DecodeSilence
    \/ DecodeRepeat
    \/ DecodeSynth
    \/ \E i \in Workers : Worker(i)
    \/ Save

Spec == Init /\ [][Next]_vars

-----------------------------------------------------------------------------
(* The pure functions of the descrambler and of the driver, applied to     *)
(* inputs drawn from bounded sets.  A probe is one pending application;    *)
(* the decoder stays in its initial state.                                 *)

\* the top six bits of u0 all ways, its low six bits all clear or all set;
\* u1 clear or set; bits 2..0 of u7 all ways, its top four clear or set
BootstrapInputs ==
    {Chunks((64 * x) + lo, u1, 0, 0, 0, 0, 0, u7) :
        x \in 0..63, lo \in {0, 63}, u1 \in {0, 4095}, u7 \in (0..7) \cup (120..127)}

PeriodInputs == 0..207

\* one period for every value of floor((b0 + 40.5) / 4), so every L of 9..56
VoicePeriods == {4 * j : j \in 0..51}

\* the band bitmaps with no, one or every band voiced
VoiceBitmaps(bands) == {0, Pow(2, bands) - 1} \cup {Pow(2, i) : i \in 0..(bands - 1)}

VoiceInputs ==
    UNION {{[params |-> BaseParams_new(b0), b1 |-> b1] :
                b1 \in VoiceBitmaps(BaseParams_new(b0).bands)} : b0 \in VoicePeriods}
        \cup {[params |-> BaseParams_default, b1 |-> 0]}

\* the harmonics smooth may force: the first two, the middle one, the last
ForceHarmonics(params) == {1, 2, params.harmonics \div 2, params.harmonics}

\* e0 >= 2 and eT = 15: with a previous rate of 0.10 both tests hold
BothErrors == Errors(2, 0, 0, 0, 13, 0, 0)

PathInputs ==
    {[chunks |-> c, errors |-> e, prev_rate |-> r * Micro] :
        c \in {InvalidChunks, SilenceChunks, S1Chunks, S2Chunks},
        e \in ErrorSet \cup {BothErrors},
        r \in {0, 50000, 100000}}

\* the chunks of the worked frames, and the frame of an invalid period
DescrambleInputs == {S1Chunks, S2Chunks, InvalidChunks}

\* the sample offsets the synthesis asks for are -160..159; twice as far
WindowInputs == (-2 * SAMPLES_PER_FRAME)..(2 * SAMPLES_PER_FRAME)

\* energies R_M0 of a frame: silent, below the floor of the tracker, above
\* it, and far above the initial tracker
TrackEnergies == {0, 9000, 200000, 1000000}

\* every number of harmonics a frame can have
HarmonicsInputs == MIN_HARMONICS..MAX_HARMONICS

\* scan.rs, test_bits_16
BitsChunks == Chunks(4093, 1365, 1365, 1365, 2047, 682, 1365, 80)

\* scan.rs, test_parts_16: u4 = 0b11110110101, u5 = 0b00001111010
PartsChunks == Chunks(0, 0, 0, 0, 1973, 122, 0, 0)

\* u0 = 0b000000101000, u7 = 0b1110111: bits 5..3 of u0 are 101 and every
\* bit of u7 but bit 3 is set
GainChunks == Chunks(40, 0, 0, 0, 1024, 1, 0, 119)

OnesChunks == Chunks(4095, 4095, 4095, 4095, 2047, 2047, 2047, 127)

ScanFrames ==
    {S1Chunks, BitsChunks, PartsChunks, GainChunks, OnesChunks, Chunks(0, 0, 0, 0, 0, 0, 0, 0)}

\* periods with L = 9, 12, .., 36, so every K of 3..12, and the two periods
\* of the tests (L = 10 and L = 16)
ScanPeriods ==
    {b0 \in VoicePeriods : BaseParams_new(b0).harmonics % 3 = 0
                              /\ BaseParams_new(b0).harmonics <= 36} \cup {4, 32}

ScanInputs ==
    {[chunks |-> c, params |-> BaseParams_new(b0)] : c \in ScanFrames, b0 \in ScanPeriods}

\* bit allocations: the rows of L = 10 and L = 16 with the scans of the
\* frames above, and every allocation of 0..MaxWidth bits to three
\* amplitudes with every scan of the right length
AllBits(n) == [1..n -> {0, 1}]

AmpInputs ==
    {[bits |-> allocs(BaseParams_new(b0).harmonics)[1],
      scan |-> ScanBits_new(ScanChunks_new(c, ScanSep_new(c, BaseParams_new(b0)).scanned,
                                           BaseParams_new(b0)))] :
        c \in ScanFrames \cup {S2Chunks}, b0 \in {4, 32}}
        \cup UNION {{[bits |-> b, scan |-> s] : s \in AllBits(SumSeq(b, 3))} :
                        b \in [1..3 -> 0..MaxWidth]}

\* amplitudes for smooth, in 1/1000: the level v at harmonic j, 0 elsewhere
OneHot(L, j, v) == [l \in 1..L |-> IF l = j THEN v ELSE 0]

\* levels on both sides of every threshold of the error records below;
\* 90496 is 1.414 * 64 exactly
SmoothLevels == {90496, 90497, 400000, 1000000, 5000000}

SmoothAmps(L) ==
    {OneHot(L, j, v) : j \in {1, L \div 2, L}, v \in SmoothLevels}
        \cup {[l \in 1..L |-> 0], [l \in 1..L |-> 5000000]}

\* error characteristics on both sides of each test of Eq 112, and those of
\* enhance.rs, test_smooth (rate 0.025)
SmoothErrors ==
    {[total |-> tot, rate |-> r * Micro, golay_init |-> 0, hamming_init |-> e4] :
        tot \in {0, 4, 5}, r \in {2500, 5000, 7500, 12500, 12600, 25000}, e4 \in {0, 1}}

\* S_E = 4^8 and 5^8
SmoothTracking == {65536, 390625}

SmoothInputs ==
    UNION {{[amps |-> a, voice |-> VoiceDecisions_new(b1, BaseParams_new(b0)),
             errors |-> e, fen |-> [energy |-> 0, tracking |-> s * Micro]] :
                a \in SmoothAmps(BaseParams_new(b0).harmonics),
                b1 \in {0, 4},
                e \in SmoothErrors,
                s \in SmoothTracking} : b0 \in {0, 207}}

\* Phase::new: frames of L = 9, 16 and 56 after a frame of L = 9, 16, 56 or
\* the default 30; no, one or every band voiced; four noise streams
PhaseInputs ==
    UNION {{[params |-> BaseParams_new(b0), prev_params |-> pp,
             voice |-> VoiceDecisions_new(b1, BaseParams_new(b0)), stream |-> s] :
                pp \in {BaseParams_new(0), BaseParams_new(32), BaseParams_new(207),
                        BaseParams_default},
                b1 \in {0, 4, Pow(2, BaseParams_new(b0).bands) - 1},
                s \in {"low", "high", "zero", "alt"}} : b0 \in {0, 32, 207}}

Pending(fn, in) == [fn |-> fn, in |-> in, done |-> FALSE, out |-> Null, steps |-> 0]

Probes ==
    {Pending("bootstrap", c) : c \in BootstrapInputs}
        \cup {Pending("params", b0) : b0 \in PeriodInputs}
        \cup {Pending("voice", v) : v \in VoiceInputs}
        \cup {Pending("path", x) : x \in PathInputs}
        \cup {Pending("blocks", L) : L \in HarmonicsInputs}
        \cup {Pending("descramble", c) : c \in DescrambleInputs}
        \cup {Pending("edges", b0) : b0 \in PeriodInputs}
        \cup {Pending("window", n) : n \in WindowInputs}
        \cup {Pending("sep", x) : x \in ScanInputs}
        \cup {Pending("scan", x) : x \in ScanInputs}
        \cup {Pending("amps", x) : x \in AmpInputs}
        \cup {Pending("smooth", x) : x \in SmoothInputs}
        \cup {Pending("phase", x) : x \in PhaseInputs}
        \cup {Pending("parts", v) : v \in VoiceInputs \ {[params |-> BaseParams_default, b1 |-> 0]}}
        \cup {Pending("wola", n) : n \in Samples}
        \cup {Pending("energy", [prev |-> FrameEnergy_default, rm0 |-> r]) :
                  r \in TrackEnergies}

InitFn == InitDecoder /\ probe \in Probes

Applied(out) == [probe EXCEPT !.done = TRUE, !.out = out]

\* ScanSep::new and gain_idx as descramble calls them
ApplySep ==
    /\ probe.fn = "sep" /\ ~probe.done
    /\ LET sep == ScanSep_new(probe.in.chunks, probe.in.params)
       IN  probe' = Applied([sep |-> sep,
                             gain_idx |-> gain_idx(probe.in.chunks, sep.idx_part)])
    /\ UNCHANGED decoderVars

\* one call of ScanBits::next on the iterator descramble builds; the calls
\* go on after the first None
ApplyScanNext ==
    /\ probe.fn = "scan"
    /\ LET items == ScanChunks_new(probe.in.chunks,
                                   ScanSep_new(probe.in.chunks, probe.in.params).scanned,
                                   probe.in.params)
           st == IF probe.steps = 0
                 THEN [it |-> ScanBits_start, bits |-> <<>>, nones |-> 0]
                 ELSE probe.out
           r == ScanBits_next(items, st.it)
       IN  /\ st.nones <= MaxNone
           /\ probe' = [probe EXCEPT
                  !.steps = @ + 1,
                  !.done = ~r.some,
                  !.out = [it |-> r.it,
                           bits |-> IF r.some THEN Append(st.bits, r.bit) ELSE st.bits,
                           nones |-> IF r.some THEN st.nones ELSE st.nones + 1]]
    /\ UNCHANGED decoderVars

\* the loops of QuantizedAmplitudes::new on an allocation and a scan
ApplyAmps ==
    /\ probe.fn = "amps" /\ ~probe.done
    /\ LET bits == probe.in.bits
           max == SeqMax(bits)
           n == Len(bits)
       IN  probe' = Applied(IF QuantizedAmplitudes_fill_ok(bits, max, probe.in.scan, n)
                            THEN QuantizedAmplitudes_fill(bits, max, probe.in.scan, n)
                            ELSE Panic)
    /\ UNCHANGED decoderVars

\* smooth on numeric amplitudes: the harmonics over the threshold are the
\* loud ones of the decoder model
ApplySmooth ==
    /\ probe.fn = "smooth" /\ ~probe.done
    /\ LET enhanced == [len |-> Len(probe.in.amps), sgn |-> 1]
           loud == smooth_loud(probe.in.amps, probe.in.errors, probe.in.fen)
       IN  probe' = Applied(
               IF smooth_ok(enhanced, probe.in.voice, probe.in.errors, loud)
               THEN smooth(enhanced, probe.in.voice, probe.in.errors, probe.in.fen,
                           42, loud).voice
               ELSE Panic)
    /\ UNCHANGED decoderVars

\* PhaseBase::new and Phase::new as decode chains them; the result is
\* phase.get(l) - base.get(l) for l = 1..56
ApplyPhase ==
    /\ probe.fn = "phase" /\ ~probe.done
    /\ LET p == [PrevFrame_default EXCEPT !.params = probe.in.prev_params]
           vbase == PhaseBase_new(probe.in.params, p)
           vphase == Phase_new(vbase, probe.in.params, p, probe.in.voice, 1)
       IN  probe' = Applied(
               IF Phase_ok(probe.in.params, p, probe.in.voice)
               THEN [l \in 1..MAX_HARMONICS |-> Phase_offset(vphase, l, probe.in.stream)]
               ELSE Panic)
    /\ UNCHANGED decoderVars

\* UnvoicedParts::new for a frame of L positive amplitudes and its decisions
ApplyParts ==
    /\ probe.fn = "parts" /\ ~probe.done
    /\ LET params == probe.in.params
           voice == VoiceDecisions_new(probe.in.b1, params)
           enhanced == [len |-> params.harmonics, sgn |-> 1]
       IN  probe' = Applied(IF UnvoicedParts_ok(params, voice, enhanced)
                            THEN UnvoicedParts_new(params, voice, enhanced, 1)
                            ELSE Panic)
    /\ UNCHANGED decoderVars

\* Unvoiced::get(n) on the spectrum of a frame of 16 unvoiced harmonics that
\* follows a frame with an empty spectrum
ApplyWola ==
    /\ probe.fn = "wola" /\ ~probe.done
    /\ LET params == BaseParams_new(32)
           udft == UnvoicedParts_new(params, VoiceDecisions_new(0, params),
                                     [len |-> params.harmonics, sgn |-> 1], 1)
           u == Unvoiced_new(udft, UnvoicedDFT_default)
       IN  probe' = Applied([w |-> Unvoiced_weights(u, probe.in),
                             value |-> Unvoiced_get(u, probe.in)])
    /\ UNCHANGED decoderVars

ApplyBootstrap ==
    /\ probe.fn = "bootstrap" /\ ~probe.done
    /\ probe' = Applied(Bootstrap_new(probe.in))
    /\ UNCHANGED decoderVars

ApplyParams ==
    /\ probe.fn = "params" /\ ~probe.done
    /\ probe' = Applied(BaseParams_new(probe.in))
    /\ UNCHANGED decoderVars

ApplyVoice ==
    /\ probe.fn = "voice" /\ ~probe.done
    /\ probe' = Applied(VoiceDecisions_new(probe.in.b1, probe.in.params))
    /\ UNCHANGED decoderVars

\* Bootstrap::new(&chunks), BaseParams::new(b.unwrap_period()) and
\* descramble(&chunks, &p), as the tests and decode chain them
ApplyDescramble ==
    /\ probe.fn = "descramble" /\ ~probe.done
    /\ LET b == Bootstrap_new(probe.in)
           p == BaseParams_new(b.p)
           d == descramble(probe.in, p)
       IN  probe' = Applied(IF b.tag = "Period" /\ descramble_ok(probe.in, p)
                            THEN [period |-> b.p, params |-> p, amps |-> d.amps,
                                  voice |-> d.voice, gain_idx |-> d.gain_idx]
                            ELSE Panic)
    /\ UNCHANGED decoderVars

\* edges(l, &p) for every harmonic l = 1..L of the frame of period b0
ApplyEdges ==
    /\ probe.fn = "edges" /\ ~probe.done
    /\ LET p == BaseParams_new(probe.in)
       IN  probe' = Applied([l \in 1..p.harmonics |-> edges(l, p)])
    /\ UNCHANGED decoderVars

ApplyWindow ==
    /\ probe.fn = "window" /\ ~probe.done
    /\ probe' = Applied(Window_get(synthesis_full, probe.in))
    /\ UNCHANGED decoderVars

\* FrameEnergy::new on the FrameEnergy of the frame before: the first
\* application takes the default, every later one the value just computed
ApplyEnergy ==
    /\ probe.fn = "energy"
    /\ probe.steps < MaxTrack
    /\ LET before == IF probe.done THEN probe.out ELSE probe.in.prev
       IN  probe' = [probe EXCEPT !.in.prev = before,
                                  !.out = FrameEnergy_new(probe.in.rm0, before),
                                  !.done = TRUE,
                                  !.steps = @ + 1]
    /\ UNCHANGED decoderVars

ApplyBlocks ==
    /\ probe.fn = "blocks" /\ ~probe.done
    /\ probe' = Applied(IF AmpsUsed_ok(probe.in) THEN AmpsUsed_blocks(probe.in)
                        ELSE Panic)
    /\ UNCHANGED decoderVars

\* one more force_voiced(l), 1 <= l <= L, on the value of a voice probe
ApplyForce ==
    /\ probe.fn = "voice" /\ probe.done
    /\ probe.steps < MaxForce
    /\ \E l \in ForceHarmonics(probe.in.params) :
          /\ mask_ok(probe.out, l)
          /\ probe' = [probe EXCEPT !.out = force_voiced(@, l), !.steps = @ + 1]
    /\ UNCHANGED decoderVars

ApplyPath ==
    /\ probe.fn = "path" /\ ~probe.done
    /\ probe' = Applied(DecodePath(probe.in.chunks, probe.in.errors, probe.in.prev_rate))
    /\ UNCHANGED decoderVars

NextFn ==
    \/ ApplyWola
    \/ ApplyParts
    \/ ApplyPhase
    \/ ApplySmooth
    \/ ApplyAmps
    \/ ApplySep
    \/ ApplyScanNext
    \/ ApplyBootstrap
    \/ ApplyParams
    \/ ApplyVoice
    \/ ApplyForce
    \/ ApplyBlocks
    \/ ApplyEnergy
    \/ ApplyWindow
    \/ ApplyEdges
    \/ ApplyDescramble
    \/ ApplyPath

FnSpec == InitFn /\ [][NextFn]_vars

-----------------------------------------------------------------------------
(* Properties.  A call has returned when pc = "idle" and path.kind is not  *)
(* "none"; a step from idle to idle is one whole call of the silence or    *)
(* the repeat path.                                                        *)

Returned == pc = "idle" /\ path.kind # "none"

SilenceCall == pc = "idle" /\ pc' = "idle" /\ path'.kind = "silence"

RepeatCall == pc = "idle" /\ pc' = "idle" /\ path'.kind = "repeat"

SpecRate(errors, prev_rate) == (19 * (prev_rate \div 20)) + (365 * SumTo(errors, 6) * Micro)

SpecRepeats(errors, prev_rate) ==
    /\ errors[0] >= 2
    /\ SumTo(errors, 6) - 10 >= CeilDiv(SpecRate(errors, prev_rate), 25000 * Micro)

SpecMutes(errors, prev_rate) == SpecRate(errors, prev_rate) > 87500 * Micro

SpecPath(tag, errors, prev_rate) ==
    IF tag = "Silence" THEN "silence"
    ELSE IF tag = "Invalid" THEN "repeat"
    ELSE IF SpecRepeats(errors, prev_rate) THEN "repeat"
    ELSE IF SpecMutes(errors, prev_rate) THEN "silence"
    ELSE "synth"

\* C2: the path is the priority-ordered function of the bootstrap class, the
\* error counts and the stored rate: Silence -> silence and Invalid -> repeat
\* whatever the counts; else repeat iff e0 >= 2 and eT >= 10 + 40 eR; else
\* silence iff eR > 0.0875; else synthesis.  (2,0,0,0,10,0,0) from rate 0
\* repeats; no errors from rate 0.10 is muted.
C2_PathPriority ==
    (probe.fn = "path" /\ probe.done) =>
        LET tag == Bootstrap_new(probe.in.chunks).tag
            e == probe.in.errors
            r == probe.in.prev_rate
        IN  /\ probe.out.kind = SpecPath(tag, e, r)
            /\ (tag = "Period" /\ e = RepeatErrors /\ r = 0) => probe.out.kind = "repeat"
            /\ (tag = "Period" /\ e = NoErrors /\ r = 100000 * Micro) =>
                  probe.out.kind = "silence"

\* a frame that passes the repeat test and the mute test, and is repeated
C2_Witness ==
    /\ probe.fn = "path" /\ probe.done
    /\ Bootstrap_new(probe.in.chunks).tag = "Period"
    /\ SpecRepeats(probe.in.errors, probe.in.prev_rate)
    /\ SpecMutes(probe.in.errors, probe.in.prev_rate)
    /\ probe.out.kind = "repeat"

\* C3: a call on the silence path writes 160 zero samples, each once, and
\* leaves every field of PrevFrame as it was.
C3_SilenceZerosPrevKept ==
    [][SilenceCall =>
          /\ prev' = prev
          /\ \A n \in Samples : buf'[n] = Zero /\ writes'[n] = <<Caller>>]_vars

\* a frame muted by its error rate after a frame was synthesized and saved
C3_Witness ==
    /\ Returned /\ path.kind = "silence" /\ path.by = "fec"
    /\ nsynth = 1 /\ prev # PrevFrame_default
    /\ \A n \in Samples : buf[n] = Zero

\* the samples of a repeated frame, from the saved state p and a noise draw
RepeatedFrom(p, noise) ==
    LET udft == UnvoicedParts_new(p.params, p.voice, p.enhanced, noise)
        vphase == Phase_new(PhaseBase_new(p.params, p), p.params, p, p.voice, noise)
        u == Unvoiced_new(udft, p.unvoiced)
        v == Voiced_new(p.params, p, vphase, p.enhanced, p.voice)
        s == SumAmps(v, 1, v.end_)
    IN  [n \in Samples |-> SampleOf(u, v, s, n)]

\* C4: a call on the repeat path writes the 160 samples synthesized from the
\* saved params, voice decisions and enhanced amplitudes, and changes no
\* field of PrevFrame (so the next frame anchors to the same PrevFrame after
\* any number of repeats; the phase base computed by the repeat is dropped).
C4_RepeatFromPrevKept ==
    [][RepeatCall =>
          /\ prev' = prev
          /\ \E env \in Outcomes : buf' = RepeatedFrom(prev, env.noise)]_vars

\* a frame repeated by its error counts after a frame was synthesized and
\* saved, with samples that are not all zero
C4_Witness ==
    /\ Returned /\ path.kind = "repeat" /\ path.by = "fec"
    /\ nsynth = 1 /\ prev.phase_base # PhaseBase_default
    /\ \E n \in Samples : buf[n] # Zero

\* C5: after a call on the silence path the stored err_rate is the eR of
\* that frame, 0.95 r_prev + 0.000365 eT.
C5_SilenceTracksRate ==
    [][SilenceCall =>
          prev'.err_rate = SpecRate(frame'.errors, prev.err_rate)]_vars

\* C6: during full synthesis worker i writes only the samples 40i..40i+39,
\* no sample is written twice, and when all four have finished every sample
\* n was written once and holds u(n) + s_v(n), as the sequential evaluation
\* for n = 0..159 gives it, whatever the interleaving was.
C6_WorkersDisjoint ==
    pc = "synth" =>
        /\ \A n \in Samples :
              LET i == n \div SAMPLES_PER_THREAD
              IN  /\ writes[n] \in {<<>>, <<WorkerId(i)>>}
                  /\ writes[n] # <<>> <=> n - (i * SAMPLES_PER_THREAD) < wpos[i]
        /\ AllDone =>
              \A n \in Samples :
                  /\ writes[n] = <<WorkerId(n \div SAMPLES_PER_THREAD)>>
                  /\ buf[n] = Sample(Synth_unvoiced, Synth_voiced, n)

\* the last worker has finished, the first has not started, the second is
\* half way, and a sample that is not zero was written
C6_Witness ==
    /\ pc = "synth"
    /\ wpos[0] = 0 /\ wpos[1] > 0 /\ wpos[1] < SAMPLES_PER_THREAD
    /\ wpos[3] = SAMPLES_PER_THREAD
    /\ \E n \in Samples : writes[n] # <<>> /\ buf[n] # Zero

\* C7: until a frame is synthesized the decoder holds the cold defaults
\* (L = 30, K = 10, S_E = 75000, rate 0, threshold 0, spectrals all 1, no
\* enhanced amplitude, every harmonic unvoiced, phase base, phase and
\* unvoiced spectrum zero), and every repeated frame is 160 zero samples.
C7_ColdStart ==
    (nsynth = 0 /\ pc = "idle") =>
        /\ prev = PrevFrame_default
        /\ prev.params.harmonics = 30 /\ prev.params.bands = 10
        /\ prev.energy.tracking = 75000 * Micro
        /\ prev.err_rate = 0 /\ prev.amp_thresh = 0
        /\ prev.spectrals.len = MAX_HARMONICS /\ prev.spectrals.unit
        /\ \A l \in 1..MAX_HARMONICS :
              /\ EnhancedSpectrals_get(prev.enhanced, l) = 0
              /\ ~is_voiced(prev.voice, l)
        /\ prev.phase_base = <<>> /\ prev.phase.pert = <<>>
        /\ prev.unvoiced.bins = {}
        /\ path.kind = "repeat" => \A n \in Samples : buf[n] = Zero

\* an invalid period was repeated on the cold decoder
C7_Witness ==
    /\ nsynth = 0 /\ Returned
    /\ path.kind = "repeat" /\ path.by = "bootstrap"
    /\ \A n \in Samples : writes[n] = <<Caller>>

\* b0 as the specification forms it: bits 11..6 of u0, then bits 2..1 of u7
SpecB0(chunks) == (4 * (chunks[0] \div 64)) + ((chunks[7] \div 2) % 4)

\* C8: Bootstrap::new classifies b0 = (bits 11..6 of u0, bits 2..1 of u7):
\* Period(b0) for 0..207, Silence for 216..219, Invalid otherwise, whatever
\* the other bits of the frame are.
C8_BootstrapTotal ==
    (probe.fn = "bootstrap" /\ probe.done) =>
        LET b0 == SpecB0(probe.in)
        IN  /\ b0 \in 0..207 => probe.out = [tag |-> "Period", p |-> b0]
            /\ b0 \in 216..219 => probe.out = [tag |-> "Silence"]
            /\ b0 \in (208..215) \cup (220..255) => probe.out = [tag |-> "Invalid"]

\* a silence period classified with every other bit of u0, u1 and u7 set
C8_Witness ==
    /\ probe.fn = "bootstrap" /\ probe.done
    /\ probe.out = [tag |-> "Silence"]
    /\ probe.in[0] % 64 = 63 /\ probe.in[1] = 4095 /\ probe.in[7] \div 8 = 15

\* C9: for b0 in 0..207, w0 = 4 pi / (b0 + 39.5) lies in (0, pi),
\* L = floor(0.9254 floor((b0 + 40.5) / 4)) lies in 9..56, and
\* K = min(ceil(L / 3), 12) lies in 3..12; b0 = 0, 104, 207 give
\* (9, 3), (33, 11), (56, 12).
C9_ParamsRanges ==
    (probe.fn = "params" /\ probe.done) =>
        LET b0 == probe.in
            w == probe.out.fundamental
            L == probe.out.harmonics
            K == probe.out.bands
        IN  /\ w = <<8, (2 * b0) + 79>> /\ w[1] > 0 /\ w[1] < w[2]
            /\ L = (9254 * (((2 * b0) + 81) \div 8)) \div 10000
            /\ L >= MIN_HARMONICS /\ L <= MAX_HARMONICS
            /\ K = Min(CeilDiv(L, 3), 12) /\ K >= 3 /\ K <= 12
            /\ b0 = 0 => L = 9 /\ K = 3
            /\ b0 = 104 => L = 33 /\ K = 11
            /\ b0 = 207 => L = 56 /\ K = 12

\* the longest period was converted
C9_Witness ==
    /\ probe.fn = "params" /\ probe.done
    /\ probe.in = 207 /\ probe.out.harmonics = MAX_HARMONICS

\* C10: harmonic l, 1 <= l <= min(L, 3K), is voiced iff the bit of band
\* ceil(l / 3) is set in b1, band 1 being the most significant of the K bits.
C10_VoiceBands ==
    (probe.fn = "voice" /\ probe.done) =>
        LET L == probe.in.params.harmonics
            K == probe.in.params.bands
        IN  \A l \in 1..Min(L, 3 * K) :
               is_voiced(probe.out, l) <=> Bit(probe.in.b1, K - CeilDiv(l, 3)) = 1

\* C11: unvoiced_count counts harmonics: for every L and band bitmap, and
\* after any force_voiced(l) calls with 1 <= l <= L, it is the number of l in
\* 1..L with is_voiced(l) false, lies in 0..L, and its subtraction does not
\* underflow.
C11_UnvoicedCountsHarmonics ==
    (probe.fn = "voice" /\ probe.done) =>
        LET v == probe.out
            L == v.params.harmonics
        IN  /\ unvoiced_count_ok(v)
            /\ unvoiced_count(v) = Cardinality({l \in 1..L : ~is_voiced(v, l)})
            /\ unvoiced_count(v) = L - Cardinality({l \in 1..L : is_voiced(v, l)})
            /\ unvoiced_count(v) >= 0 /\ unvoiced_count(v) <= L

\* two harmonics were forced in a frame of more than 36 harmonics whose
\* band bitmap alone voiced some but not all of them
C11_Witness ==
    /\ probe.fn = "voice" /\ probe.done /\ probe.steps = 2
    /\ probe.in.params.harmonics > 36
    /\ LET fresh == VoiceDecisions_new(probe.in.b1, probe.in.params)
       IN  /\ unvoiced_count(fresh) < probe.in.params.harmonics
           /\ unvoiced_count(probe.out) = unvoiced_count(fresh) - 2

\* the harmonic numbers above L queried: one whole turn of a 64-bit shift
Beyond(v) == (v.params.harmonics + 1)..(v.params.harmonics + 64)

\* C12: for every VoiceDecisions value (fresh, default or after force_voiced
\* calls with 1 <= l <= L) and every l > L, is_voiced(l) is false and the
\* query does not fail.
C12_BeyondLUnvoiced ==
    (probe.fn = "voice" /\ probe.done) =>
        \A l \in Beyond(probe.out) :
            is_voiced_ok(probe.out, l) /\ ~is_voiced(probe.out, l)

\* every harmonic of the frame is voiced, the first was forced again, and
\* the queries above L are made
C12_Witness ==
    /\ probe.fn = "voice" /\ probe.done /\ probe.steps >= 1
    /\ unvoiced_count(probe.out) = 0
    /\ is_voiced(probe.out, 1)
    /\ \E l \in Beyond(probe.out) : l > 64 /\ ~is_voiced(probe.out, l)

\* the block sizes J_1..J_6 of a row, which stores J_i - 1
BlockSizes(row) == [i \in 1..6 |-> row[i] + 1]

\* C14: the amps-used table has one row for every L in 9..56, and the block
\* sizes J_i of row L satisfy J_1 + ... + J_6 = L, J_1 <= ... <= J_6,
\* J_6 <= ceil(L / 6) and J_1 >= floor(L / 6).
C14_AmpsUsedRows ==
    /\ Len(AMPS_USED) = (MAX_HARMONICS - MIN_HARMONICS) + 1
    /\ (probe.fn = "blocks" /\ probe.done) =>
          /\ probe.out # Panic /\ Len(probe.out) = 6
          /\ LET J == BlockSizes(probe.out)
                 L == probe.in
             IN  /\ J[1] + J[2] + J[3] + J[4] + J[5] + J[6] = L
                 /\ \A i \in 1..5 : J[i] <= J[i + 1]
                 /\ J[6] <= CeilDiv(L, 6)
                 /\ J[1] >= L \div 6

\* the row of the largest L was read: blocks of 9 and of 10 amplitudes
C14_Witness ==
    /\ probe.fn = "blocks" /\ probe.done
    /\ probe.in = MAX_HARMONICS /\ probe.out[1] = 8 /\ probe.out[6] = 9

\* what the descrambling of the scenario's chunks gives apart from the period
S1Descrambled(out) ==
    /\ out # Panic
    /\ out.params.harmonics = 16 /\ out.params.bands = 6
    /\ out.gain_idx = 21
    /\ {l \in 1..64 : is_voiced(out.voice, l)} = {1, 2, 3, 7, 8, 9, 16}
    /\ unvoiced_count(out.voice) = 9

S1Done ==
    /\ probe.fn = "descramble" /\ probe.done
    /\ probe.in = Chunks(530, 3276, 3640, 4095, 1333, 378, 955, 8)

\* C15 as stated: for the chunks (0x212, 0xCCC, 0xE38, 0xFFF, 0x535, 0x17A,
\* 0x3BB, 0x08) the period is 0x21, L = 16, K = 6, the gain index is 0x15,
\* and the voiced harmonics are exactly 1, 2, 3, 7, 8, 9 and 16 (nine unvoiced).
C15_ScenarioS1_Stated ==
    S1Done => (S1Descrambled(probe.out) /\ probe.out.period = 33)

\* C15, amended: for those chunks the period is 0x20 (bits 11..6 of u0 are
\* 001000 and bits 2..1 of u7 are 00), L = 16, K = 6, the gain index is 0x15,
\* and the voiced harmonics are exactly 1, 2, 3, 7, 8, 9 and 16 (nine unvoiced).
C15_ScenarioS1 ==
    S1Done => (S1Descrambled(probe.out) /\ probe.out.period = 32)

\* the frame of the scenario was descrambled
C15_Witness ==
    /\ probe.fn = "descramble" /\ probe.done
    /\ probe.in = S1Chunks /\ probe.out # Panic
    /\ Len(probe.out.amps) = 15

\* C16: for every b0 in 0..207 with its L and c = 512 / (b0 + 39.5), the
\* band edges a_l = ceil(c (l - 0.5)) and b_l = ceil(c (l + 0.5)) satisfy
\* a_1 >= 2 and b_L <= 125, so every DFT bin written lies in 2..124; for
\* b0 = 32 the edges of l = 1, 2, 16 are (4, 11), (11, 18), (111, 119).
C16_BandEdges ==
    (probe.fn = "edges" /\ probe.done) =>
        LET b0 == probe.in
            L == Len(probe.out)
            e == probe.out
        IN  /\ L = BaseParams_new(b0).harmonics
            /\ \A l \in 1..L :
                  /\ e[l][1] = CeilDiv(512 * ((2 * l) - 1), (2 * b0) + 79)
                  /\ e[l][2] = CeilDiv(512 * ((2 * l) + 1), (2 * b0) + 79)
                  /\ \A m \in e[l][1]..(e[l][2] - 1) : m >= 2 /\ m <= 124
            /\ e[1][1] >= 2 /\ e[L][2] <= 125
            /\ b0 = 32 =>
                  /\ L = 16
                  /\ e[1] = <<4, 11>> /\ e[2] = <<11, 18>> /\ e[16] = <<111, 119>>

\* the period whose last band ends at 125, the largest upper edge
C16_Witness ==
    /\ probe.fn = "edges" /\ probe.done
    /\ probe.in = 12 /\ probe.out[Len(probe.out)][2] = 125

\* C17: Window::get(n) is 0.02 (n + 105) for -105 <= n <= -55, 1 for
\* -55 <= n <= 55, 0.02 (105 - n) for 55 <= n <= 105 and 0 for |n| > 105,
\* also when n + offset is below zero; so w(-105) = w(105) = 0,
\* w(-104) = w(104) = 0.02, w(0) = 1 and w(-n) = w(n).  Values in 1/50.
C17_WindowLookup ==
    (probe.fn = "window" /\ probe.done) =>
        LET n == probe.in
            w == probe.out
        IN  /\ (n >= -105 /\ n <= -55) => w = n + 105
            /\ (n >= -55 /\ n <= 55) => w = 50
            /\ (n >= 55 /\ n <= 105) => w = 105 - n
            /\ (n < -105 \/ n > 105) => w = 0
            /\ n \in {-105, 105} => w = 0
            /\ n \in {-104, 104} => w = 1
            /\ n = 0 => w = 50
            /\ w = Window_get(synthesis_full, -n)

\* a lookup whose index n + offset is below zero
C17_Witness ==
    /\ probe.fn = "window" /\ probe.done
    /\ probe.in + synthesis_full.offset < 0 /\ probe.out = 0

\* C18: the stored energy tracker is never below 10000: it is 75000 on
\* construction and max(0.95 S_E + 0.05 R_M0, 10000) after each synthesized
\* frame (repeated and silenced frames leave the stored state as it is, C3
\* and C4).  Values in units of 1/Micro.
C18_TrackerFloor ==
    /\ FrameEnergy_default.tracking = 75000 * Micro
    /\ prev.energy.tracking >= 10000 * Micro
    /\ (probe.fn = "energy" /\ probe.done) =>
          LET before == probe.in.prev.tracking
              ewma == (19 * (before \div 20)) + ((probe.in.rm0 * Micro) \div 20)
          IN  /\ before >= 10000 * Micro
              /\ probe.out.tracking >= 10000 * Micro
              /\ probe.out.tracking = Max(ewma, 10000 * Micro)
              /\ probe.steps = 1 => before = 75000 * Micro

\* after forty silent frames the average fell below the floor and the
\* tracker was held at 10000
C18_Witness ==
    /\ probe.fn = "energy" /\ probe.done /\ probe.steps >= 40
    /\ probe.in.rm0 = 0
    /\ 19 * (probe.in.prev.tracking \div 20) < 10000 * Micro
    /\ probe.out.tracking = 10000 * Micro

\* C19: after every fully synthesized frame, whatever error counts led to
\* synthesis, the L enhanced amplitudes stored in PrevFrame.enhanced are all
\* strictly positive; in particular the smoothing scale min(tau / sum, 1) is
\* positive, where tau = 20480 if eR <= 0.005 and eT <= 6 and
\* 6000 - 300 eT + tau_prev otherwise.
C19_EnhancedPositive ==
    (pc = "idle" /\ nsynth >= 1) =>
        /\ prev.enhanced.len = prev.params.harmonics
        /\ \A l \in 1..prev.params.harmonics :
              EnhancedSpectrals_get(prev.enhanced, l) > 0
        /\ prev.amp_thresh > 0

\* the threshold tau of a frame as the specification states it
SpecTau(errors, prev_rate, prev_tau) ==
    IF SpecRate(errors, prev_rate) <= 5000 * Micro /\ SumTo(errors, 6) <= 6
    THEN 20480
    ELSE (6000 - (300 * SumTo(errors, 6))) + prev_tau

\* C20: PrevFrame is mutated once per fully synthesized frame and only after
\* all four workers have finished: no worker runs (reads PrevFrame, writes a
\* sample) once the update has begun, and after it the ten fields hold the
\* current frame's values, voice and enhanced as smoothing left them,
\* err_rate the frame's eR and amp_thresh the frame's tau.
C20_SavedAfterJoin ==
    [][/\ (prev' # prev \/ nsynth' # nsynth \/ (pc = "synth" /\ pc' = "idle")) =>
             /\ pc = "synth" /\ pc' = "idle"
             /\ \A i \in Workers : wpos[i] = SAMPLES_PER_THREAD
             /\ \A n \in Samples : writes[n] # <<>>
             /\ buf' = buf /\ writes' = writes
             /\ nsynth' = nsynth + 1
             /\ LET params == BaseParams_new(Bootstrap_new(frame.chunks).p)
                    errors == EnhanceErrors_new(frame.errors, prev.err_rate)
                    d == descramble(frame.chunks, params)
                    energy == prev'.energy
                    thresh == SpecTau(frame.errors, prev.err_rate, prev.amp_thresh)
                IN  /\ prev'.params = params
                    /\ prev'.err_rate = SpecRate(frame.errors, prev.err_rate)
                    /\ prev'.amp_thresh = thresh
                    /\ \E env \in Outcomes :
                          LET e0 == EnhancedSpectrals_new(prev'.spectrals, energy, params)
                              sm == smooth(e0, d.voice, errors, energy, thresh, env.loud)
                          IN  /\ prev' = Pipeline(frame, prev, env)
                              /\ prev'.voice = sm.voice
                              /\ prev'.enhanced = sm.enhanced
       /\ (pc = "synth" /\ pc' = "synth") => prev' = prev]_vars

\* a frame was synthesized and saved whose smoothing forced harmonic 4, which
\* the frame's band bitmap leaves unvoiced, and whose tau is not the default
C20_Witness ==
    /\ pc = "idle" /\ nsynth = 1 /\ path.kind = "synth"
    /\ frame.chunks = S1Chunks
    /\ is_voiced(prev.voice, 4)
    /\ ~is_voiced(descramble(frame.chunks, prev.params).voice, 4)
    /\ prev.err_rate = SpecRate(frame.errors, 0) /\ prev.err_rate > 0
    /\ prev.amp_thresh = SpecTau(frame.errors, 0, 0) /\ prev.amp_thresh # 20480

-----------------------------------------------------------------------------
\* C21: in every state in which decode can be called, a frame with a valid
\* period and seven error counts of zero takes neither the repeat nor the
\* silence path and its pipeline completes; and the step that ends the
\* synthesis of such a frame replaces PrevFrame by the frame's own values,
\* with the error rate 0.95 times the stored one.
CleanFrames ==
    {f \in Frames : Bootstrap_new(f.chunks).tag = "Period" /\ f.errors = NoErrors}

C21_CleanFrameSynthesized ==
    /\ [](CanCall =>
            \A f \in CleanFrames :
                /\ DecodePath(f.chunks, f.errors, prev.err_rate).kind = "synth"
                /\ \A env \in Outcomes : Pipeline_ok(f, prev, env))
    /\ [][(pc = "synth" /\ pc' = "idle" /\ frame \in CleanFrames) =>
            /\ \E env \in Outcomes : prev' = Pipeline(frame, prev, env)
            /\ prev'.params = BaseParams_new(period(frame.chunks))
            /\ prev'.err_rate = 19 * (prev.err_rate \div 20)]_vars

\* a clean frame with L = 10 was synthesized and saved
C21_Witness ==
    /\ pc = "idle"
    /\ nsynth = 1
    /\ path.kind = "synth"
    /\ frame \in CleanFrames
    /\ prev.params.harmonics = 10
    /\ prev.err_rate = 0
    /\ \A n \in Samples : writes[n] # <<>>


-----------------------------------------------------------------------------
\* C22: the stored error rate is always within 0 .. 0.0875; it changes only
\* in the step that ends a full synthesis, to the eR of that frame, which did
\* not exceed the mute threshold.
C22_StoredRateBounded ==
    /\ [](prev.err_rate >= 0 /\ prev.err_rate <= 87500 * Micro)
    /\ [][prev'.err_rate # prev.err_rate =>
            /\ pc = "synth" /\ pc' = "idle"
            /\ path.kind = "synth"
            /\ ~should_mute(EnhanceErrors_new(frame.errors, prev.err_rate))
            /\ prev'.err_rate = EnhanceErrors_new(frame.errors, prev.err_rate).rate]_vars

\* a frame with eT = 239 was synthesized: the stored rate is 0.087235
C22_Witness ==
    /\ pc = "idle"
    /\ nsynth = 1
    /\ frame.errors = HighErrors
    /\ prev.err_rate = 87235 * Micro

-----------------------------------------------------------------------------
\* C23: with W = u4 * 2^11 + u5, ScanSep::new returns the top K bits of W as
\* voiced, the next 2 bits as idx_part and the low 20 - K bits as scanned, so
\* the three pieces put back together give W; and gain_idx is
\* (u0 bits 5..3, idx_part, u7 bit 3), a value of 0..63 that no other bit of
\* u0 or u7 changes.
FlipBit(x, j) == IF Bit(x, j) = 1 THEN x - Pow(2, j) ELSE x + Pow(2, j)

C23_SepAndGainIndex ==
    (probe.fn = "sep" /\ probe.done) =>
        LET K == probe.in.params.bands
            c == probe.in.chunks
            W == (c[4] * Pow(2, 11)) + c[5]
            s == probe.out.sep
            g == probe.out.gain_idx
        IN  /\ K \in 3..12
            /\ s.voiced \in 0..(Pow(2, K) - 1)
            /\ s.idx_part \in 0..3
            /\ s.scanned \in 0..(Pow(2, 20 - K) - 1)
            /\ (s.voiced * Pow(2, 22 - K)) + (s.idx_part * Pow(2, 20 - K)) + s.scanned = W
            /\ g = (32 * Bit(c[0], 5)) + (16 * Bit(c[0], 4)) + (8 * Bit(c[0], 3))
                       + (2 * s.idx_part) + Bit(c[7], 3)
            /\ g \in 0..63
            /\ \A j \in (0..11) \ {3, 4, 5} :
                   gain_idx([c EXCEPT ![0] = FlipBit(c[0], j)], s.idx_part) = g
            /\ \A j \in (0..6) \ {3} :
                   gain_idx([c EXCEPT ![7] = FlipBit(c[7], j)], s.idx_part) = g

\* scan.rs, test_parts_16: the pieces of W, and the index b2 = 000 10 0
C23_Witness ==
    /\ probe.fn = "sep" /\ probe.done
    /\ probe.in.chunks = PartsChunks
    /\ probe.in.params.bands = 6
    /\ probe.out.sep = [voiced |-> 61, idx_part |-> 2, scanned |-> 10362]
    /\ probe.out.gain_idx = 4

-----------------------------------------------------------------------------
\* C24: the bits ScanBits yields are, MSB first within each piece, the low 3
\* bits of u0, the 12 bits of u1, u2 and u3, the 20 - K scanned bits, the 11
\* bits of u6 and bits 6..4 of u7; there are 73 - K of them and every call
\* after the last one returns None.
MsbFirst(v, w) == [j \in 1..w |-> Bit(v, w - j)]

ScanOrder(c, K) ==
    MsbFirst(c[0], 3) \o MsbFirst(c[1], 12) \o MsbFirst(c[2], 12)
        \o MsbFirst(c[3], 12) \o MsbFirst((c[4] * Pow(2, 11)) + c[5], 20 - K)
        \o MsbFirst(c[6], 11) \o MsbFirst(Shr(c[7], 4), 3)

C24_ScanBitOrder ==
    (probe.fn = "scan" /\ probe.steps > 0) =>
        LET K == probe.in.params.bands
            want == ScanOrder(probe.in.chunks, K)
            got == probe.out.bits
        IN  /\ Len(want) = 73 - K
            /\ Len(got) <= Len(want)
            /\ got = SubSeq(want, 1, Len(got))
            /\ probe.steps = Len(got) + probe.out.nones
            /\ probe.out.nones > 0 => got = want
            /\ probe.done <=> probe.out.nones > 0

\* test_bits_16: all 67 bits were yielded and None was returned three times
C24_Witness ==
    /\ probe.fn = "scan" /\ probe.done
    /\ probe.in.chunks = BitsChunks
    /\ probe.in.params.bands = 6
    /\ Len(probe.out.bits) = 67
    /\ SubSeq(probe.out.bits, 1, 6) = <<1, 0, 1, 0, 1, 0>>
    /\ probe.out.nones = MaxNone + 1

-----------------------------------------------------------------------------
\* C25: the amplitudes are filled bit plane by bit plane: levels i from
\* M - 1 down to 0, m ascending within a level, amplitude m taking the next
\* scan bit at level i iff B_m > i, and that bit is bit i of b_m.  So
\* b_m < 2^(B_m), an amplitude of width 0 is 0, there are L - 1 amplitudes
\* (m = 3..L+1), and get(m) fails for m > L + 1.
\* the position in the scan of bit i of the k-th amplitude
PlanePos(B, k, i) ==
    LET above == {<<j, lev>> \in (1..Len(B)) \X (0..SeqMax(B)) : lev > i /\ B[j] > lev}
        before == {j \in 1..(k - 1) : B[j] > i}
    IN  Cardinality(above) + Cardinality(before) + 1

C25_BitPlaneOrder ==
    (probe.fn = "amps" /\ probe.done) =>
        LET B == probe.in.bits
            L == Len(B) + 1
            b == probe.out
        IN  /\ b # Panic
            /\ Len(b) = L - 1
            /\ \A k \in 1..(L - 1) :
                  /\ b[k] >= 0 /\ b[k] < Pow(2, B[k])
                  /\ B[k] = 0 => b[k] = 0
                  /\ \A i \in 0..(B[k] - 1) :
                        Bit(b[k], i) = probe.in.scan[PlanePos(B, k, i)]
            /\ \A m \in 3..(L + 1) : QuantizedAmplitudes_get_ok(b, m)
            /\ \A m \in (0..2) \cup ((L + 2)..(L + 8)) : ~QuantizedAmplitudes_get_ok(b, m)

\* descramble.rs, test_descramble_10: the nine amplitudes b3..b11
C25_Witness ==
    /\ probe.fn = "amps" /\ probe.done
    /\ probe.in.bits = <<9, 9, 8, 8, 8, 9, 7, 6, 5>>
    /\ probe.out = <<171, 429, 75, 88, 157, 187, 126, 54, 28>>
    /\ ~QuantizedAmplitudes_get_ok(probe.out, 12)

-----------------------------------------------------------------------------
\* C26: after smooth, harmonic l of 1..L is voiced iff it was voiced before
\* or its enhanced amplitude exceeds lambda, where no harmonic is forced if
\* eR <= 0.005 and eT <= 4, else lambda = 45.255 S_E^0.375 / exp(277.26 eR)
\* if eR <= 0.0125 and e4 = 0, else lambda = 1.414 S_E^0.375; no voicing is
\* cleared and no bit for l > L is set.
\* the harmonics over lambda, with S_E = s^8 and exp(277.26 eR) = 2^k
SpecForced(amps, errors, s, k) ==
    IF errors.rate <= 5000 * Micro /\ errors.total <= 4 THEN {}
    ELSE IF errors.rate <= 12500 * Micro /\ errors.hamming_init = 0
    THEN {l \in 1..Len(amps) : amps[l] * Pow(2, k) > 45255 * Pow(s, 3)}
    ELSE {l \in 1..Len(amps) : amps[l] > 1414 * Pow(s, 3)}

C26_SmoothOnlyAddsVoicing ==
    (probe.fn = "smooth" /\ probe.done) =>
        LET before == probe.in.voice
            after == probe.out
            L == before.params.harmonics
            s == IF probe.in.fen.tracking = 65536 * Micro THEN 4 ELSE 5
            k == probe.in.errors.rate \div (2500 * Micro)
            forced == SpecForced(probe.in.amps, probe.in.errors, s, k)
        IN  /\ after # Panic
            /\ after.params = before.params
            /\ \A l \in 1..L :
                  is_voiced(after, l) <=> (is_voiced(before, l) \/ l \in forced)
            /\ before.voiced \subseteq after.voiced
            /\ after.voiced \ before.voiced \subseteq {L - l : l \in 1..L}
            /\ \A l \in Beyond(after) : ~is_voiced(after, l)

\* eR = 0.0075, eT = 5, e4 = 0, S_E = 4^8: lambda = 45.255 * 64 / 8 = 362.04;
\* the last of 9 harmonics, at 400, is forced voiced; harmonics 1..3 stay voiced
C26_Witness ==
    /\ probe.fn = "smooth" /\ probe.done
    /\ probe.in.errors = [total |-> 5, rate |-> 7500 * Micro, golay_init |-> 0,
                          hamming_init |-> 0]
    /\ probe.in.fen.tracking = 65536 * Micro
    /\ probe.in.amps = OneHot(9, 9, 400000)
    /\ {l \in 1..9 : is_voiced(probe.in.voice, l)} = {1, 2, 3}
    /\ {l \in 1..9 : is_voiced(probe.out, l)} = {1, 2, 3, 9}

-----------------------------------------------------------------------------
\* C27: Phase::new changes only the harmonics l with
\* floor(L/4) < l <= max(L, L_prev): outside that range the phase is the base
\* phase; inside it the phase is the base phase plus (L_uv / L) * r with r in
\* [-pi, pi], so the two differ by at most pi * L_uv / L; with no unvoiced
\* harmonic the phase is the base phase for every l.
C27_PhaseRange ==
    (probe.fn = "phase" /\ probe.done) =>
        LET L == probe.in.params.harmonics
            Lprev == probe.in.prev_params.harmonics
            Luv == Cardinality({l \in 1..L : ~is_voiced(probe.in.voice, l)})
            d == probe.out
        IN  /\ d # Panic
            /\ \A l \in 1..(L \div 4) : d[l] = 0
            /\ \A l \in (Max(L, Lprev) + 1)..MAX_HARMONICS : d[l] = 0
            /\ \A l \in ((L \div 4) + 1)..Max(L, Lprev) :
                  /\ d[l] = Luv * Draw(probe.in.stream, l - (L \div 4))
                  /\ d[l] >= -(Luv * PhaseGrid) /\ d[l] <= Luv * PhaseGrid
            /\ Luv = 0 => \A l \in 1..MAX_HARMONICS : d[l] = 0

\* L = 16 after the default frame of 30 harmonics, 13 of 16 unvoiced, every
\* draw -pi: harmonics 1..4 and 31..56 keep the base phase, 5..30 move by
\* -pi * 13 / 16
C27_Witness ==
    /\ probe.fn = "phase" /\ probe.done
    /\ probe.in.params.harmonics = 16
    /\ probe.in.prev_params.harmonics = 30
    /\ probe.in.stream = "low"
    /\ probe.out[4] = 0 /\ probe.out[31] = 0
    /\ probe.out[5] = -(13 * PhaseGrid) /\ probe.out[30] = -(13 * PhaseGrid)

-----------------------------------------------------------------------------
\* C28: in the unvoiced spectrum of a frame a bin m is non-zero only if
\* a_l <= |m| < b_l for a harmonic l of 1..L that is unvoiced; the bins of
\* the band of a voiced harmonic, bin 0, bin -128 and the bins with
\* |m| >= 126 are zero, and the negative bins mirror the positive ones.
\* a_l and b_l = a_(l+1): ceil(512 (2 l - 1) / (2 b0 + 79)), the fundamental
\* being 8 pi / (2 b0 + 79)
SpecEdge(params, l) == CeilDiv(512 * ((2 * l) - 1), params.fundamental[2])

InBand(params, l, m) ==
    LET am == IF m < 0 THEN -m ELSE m
    IN  SpecEdge(params, l) <= am /\ am < SpecEdge(params, l + 1)

C28_UnvoicedBinsInBands ==
    (probe.fn = "parts" /\ probe.done) =>
        LET params == probe.in.params
            L == params.harmonics
            voice == VoiceDecisions_new(probe.in.b1, params)
            NonZero(m) == (m + 128) \in probe.out.bins
        IN  /\ probe.out # Panic
            /\ \A m \in -128..127 :
                  NonZero(m) => \E l \in 1..L : ~is_voiced(voice, l) /\ InBand(params, l, m)
            /\ \A l \in 1..L : \A m \in -128..127 :
                  (is_voiced(voice, l) /\ InBand(params, l, m)) => ~NonZero(m)
            /\ ~NonZero(0) /\ ~NonZero(-128)
            /\ \A m \in -128..127 : (m >= 126 \/ m <= -126) => ~NonZero(m)
            /\ \A m \in 1..127 : NonZero(m) <=> NonZero(-m)

\* b0 = 32, L = 16, harmonics 1..3 voiced: the bins of l = 1 (4..10) are
\* zero, those of l = 16 (111..118) and their mirrors are written, and 119 is
\* not
C28_Witness ==
    /\ probe.fn = "parts" /\ probe.done
    /\ probe.in.params.harmonics = 16
    /\ {l \in 1..16 : is_voiced(VoiceDecisions_new(probe.in.b1, probe.in.params), l)}
           = {1, 2, 3}
    /\ probe.out.bins \cap ((128 + 4)..(128 + 10)) = {}
    /\ ((128 + 111)..(128 + 118)) \subseteq probe.out.bins
    /\ ((128 - 118)..(128 - 111)) \subseteq probe.out.bins
    /\ (128 + 119) \notin probe.out.bins /\ (128 - 119) \notin probe.out.bins

-----------------------------------------------------------------------------
\* C29: for every n of 0..159 the two windows of the overlap-add are
\* complementary, w_S(n) + w_S(n - 160) = 1, so w_S(n)^2 + w_S(n - 160)^2 is
\* at least 1/2 and Unvoiced::get does not divide by zero.  Windows in 1/50.
C29_WindowsComplementary ==
    (probe.fn = "wola" /\ probe.done) =>
        LET wp == probe.out.w[1]
            wc == probe.out.w[2]
        IN  /\ wp + wc = 50
            /\ 2 * ((wp * wp) + (wc * wc)) >= 50 * 50
            /\ probe.out.value # NaN

\* n = 80: both windows are 1/2 and the denominator is exactly 1/2
C29_Witness ==
    /\ probe.fn = "wola" /\ probe.done
    /\ probe.in = 80
    /\ probe.out.w = <<25, 25>>
    /\ probe.out.value # NaN

-----------------------------------------------------------------------------
\* C30: for every b0 of 0..207 the bands of the harmonics 1..L tile the
\* spectrum: a_l < b_l for every l (the division by b_l - a_l in scale is
\* never by zero) and b_l = a_(l+1) for l < L, so no bin belongs to the bands
\* of two harmonics.
BandBins(e) == e[1]..(e[2] - 1)

C30_BandsTile ==
    (probe.fn = "edges" /\ probe.done) =>
        LET e == probe.out
            L == Len(e)
        IN  /\ L = BaseParams_new(probe.in).harmonics
            /\ \A l \in 1..L : e[l][1] < e[l][2]
            /\ \A l \in 1..(L - 1) : e[l][2] = e[l + 1][1]
            /\ \A l, k \in 1..L : l # k => BandBins(e[l]) \cap BandBins(e[k]) = {}

\* b0 = 207, the narrowest bands: L = 56, the first band is bins 2..3, the
\* second starts at 4, the last ends before 118
C30_Witness ==
    /\ probe.fn = "edges" /\ probe.done
    /\ probe.in = 207
    /\ Len(probe.out) = 56
    /\ probe.out[1] = <<2, 4>>
    /\ probe.out[2][1] = 4
    /\ probe.out[56][2] = 118

=============================================================================
